---- MODULE Spec2Model ----
(***************************************************************************)
(* Model of the subtitle compositing core of backend/ass_generator.py:     *)
(*   - the cue parser of generate_ass (lines 163-196),                     *)
(*   - per-cue style expansion, overlap flattening, line stacking and      *)
(*     event emission of generate_ass (lines 198-417),                     *)
(*   - the lane scheduler and the emoji shortcuts of generate_danmaku_ass  *)
(*     (lines 456-567),                                                    *)
(*   - the time and colour conversions (lines 3-42, and hex_to_ass_color   *)
(*     of backend/video_processing.py),                                    *)
(* and of the encoder calls of backend/video_clipper.py (extract_clip,     *)
(* merge_clips) and backend/video_processing.py                            *)
(* (burn_subtitles_with_ffmpeg), the prefix images of                      *)
(* extract_prefix_images_from_vtt, the /burn and /youtube/download         *)
(* endpoints of backend/main.py with backend/progress.py, generate_fcpxml  *)
(* of backend/fcpxml_generator.py and get_model of backend/transcribe.py.  *)
(* Times are integers in milliseconds.  Strings the code takes apart are   *)
(* sequences of tokens, so that joining, splitting and sanitising are      *)
(* computed and not assumed.                                               *)
(***************************************************************************)
EXTENDS Integers, Sequences, FiniteSets, TLC

VARIABLES
    \* ---- cue parser (generate_ass, lines 159-196)
    lines,            \* the stripped lines of the cue file still to be read
    in_cue,           \* parser state: FALSE = Idle, TRUE = InCue
    text_lines,       \* text accumulated for the open cue
    current_start,    \* start of the open cue (ms)
    current_end,      \* end of the open cue (ms)
    events,           \* the parsed cues
    ppc,              \* "read" | "eof" | "done" | "error" | "idle"
    \* ---- composition (generate_ass, lines 198-417)
    styles,           \* the default style object
    saved_styles,     \* ordered mapping name -> style object
    style_map,        \* mapping cue index -> style name
    expanded_events,
    merged_events,
    ass_lines,        \* rows of the written markup
    apc,              \* "parsed" | "expanded" | "merged" | "written" | "idle"
    \* ---- scroll-comment scheduler (generate_danmaku_ass)
    comments,         \* the caller's comment list
    cfg,              \* resolution_x, resolution_y, font_size, speed_min, speed_max
    sorted_comments,  \* comments still to be scheduled, by timestamp
    lane_available_times,
    chosen_lane,      \* lane given to the last scheduled comment, -1 before
    base_speed,       \* speed drawn for the last scheduled comment (px/s), 0 before
    dm_lines,         \* event rows of the scroll-comment markup
    emoji_map,        \* shortcut token -> image file name (empty: None or {})
    emoji_dir,        \* the directory's path ("" if not given) and its files
    emoji_overlays,   \* the overlay descriptors returned to the caller
    dpc,              \* "sched" | "done" | "idle"
    \* ---- time and colour conversions called on their own
    time_str,         \* a cue-time string, as its colon-separated groups
    parsed,           \* what parse_vtt_time returned for it
    ass_time,         \* what seconds_to_ass_time returned for that
    hex_literal,      \* a colour literal, as its hex digits after the "#"
    ass_color,        \* what hex_to_ass_color of ass_generator returned
    vp_ass_color,     \* what hex_to_ass_color of video_processing returned
    cpc,              \* "time" | "parsed" | "formatted" | "error" | "color" | "idle"
    \* ---- encoder calls (extract_clip, merge_clips, burn_subtitles_with_ffmpeg)
    ff_call,          \* the function called and its arguments
    cmd,              \* the encoder's argument list
    filter_script,    \* content of <output_path>.filter_complex, <<>> if not written
    list_file,        \* content of <output_path>.txt, <<>> if absent
    result,           \* what subprocess.run returned
    outcome,          \* how the call ended: a returned value or a raised error
    runs,             \* number of times the encoder was started
    fpc,              \* "call" | "built" | "ran" | "done" | "idle"
    \* ---- the /burn endpoint (burn_subtitles of main.py)
    request,          \* the BurnRequest and the files found for its video
    comments_data,    \* the comments extracted and filtered for the video
    danmaku_file,     \* danmaku_ass_path: "" for None
    main_overlays,    \* the endpoint's local emoji_overlays, if bound
    error,            \* the exception on its way to the handler, "" if none
    response,         \* the HTTP response, <<>> before
    bpc,              \* "start" | "found" | "ass" | "danmaku" | "failed" | "done" | "idle"
    \* ---- generate_fcpxml
    subtitles,        \* the caller's segment list
    fps,              \* frames per second of the video
    titles,           \* the title elements added to the gap
    next_sub,         \* 0-based index of the segment the loop is at
    xpc,              \* "call" | "titles" | "written" | "idle"
    \* ---- extract_prefix_images_from_vtt (its lines, in_cue, current_start
    \*      and current_end are the cue parser's variables of these names)
    vtt,              \* the stripped lines of the cue file, as given
    cue_index,        \* number of cues closed so far
    image_overlays,   \* the descriptors returned
    \* ---- the /youtube/download endpoint (download_youtube of main.py)
    progress_store,   \* progress.py: video id -> status, progress, updated_at
    now,              \* time.time(), in minutes
    jpc,              \* where each request is in download_youtube
    model_size,       \* each request's model_size
    video_file,       \* the video is in the upload directory
    vtt_file,         \* its transcript is in the upload directory
    \* ---- the model cache (get_model of transcribe.py)
    current_model,      \* the global current_model: None, a model, or unbound
    current_model_size, \* the global current_model_size
    loadable,           \* the sizes WhisperModel(...) can load
    loads,              \* how many models were constructed
    last_call,          \* the last get_model call: its argument, what was held, what came back
    ncalls              \* how many get_model calls were made

parseVars == <<lines, in_cue, text_lines, current_start, current_end, ppc>>
assVars == <<styles, saved_styles, style_map, expanded_events, merged_events, ass_lines, apc>>
dmVars == <<comments, cfg, sorted_comments, lane_available_times, chosen_lane, base_speed,
            dm_lines,
            emoji_map, emoji_dir, emoji_overlays, dpc>>
codecVars == <<time_str, parsed, ass_time, hex_literal, ass_color, vp_ass_color, cpc>>
ffVars == <<ff_call, cmd, filter_script, list_file, result, outcome, runs, fpc>>
burnVars == <<request, comments_data, danmaku_file, main_overlays, error, response, bpc>>
fcpVars == <<subtitles, fps, titles, next_sub, xpc>>
prefixVars == <<vtt, cue_index, image_overlays>>
jobVars == <<progress_store, now, jpc, model_size, video_file, vtt_file>>
modelVars == <<current_model, current_model_size, loadable, loads, last_call, ncalls>>
apiVars == <<burnVars, fcpVars, prefixVars, jobVars, modelVars>>
vars == <<lines, in_cue, text_lines, current_start, current_end, events, ppc,
          styles, saved_styles, style_map, expanded_events, merged_events, ass_lines, apc,
          comments, cfg, sorted_comments, lane_available_times, chosen_lane, base_speed,
          dm_lines, emoji_map, emoji_dir, emoji_overlays, dpc,
          time_str, parsed, ass_time, hex_literal, ass_color, vp_ass_color, cpc,
          ff_call, cmd, filter_script, list_file, result, outcome, runs, fpc,
          request, comments_data, danmaku_file, main_overlays, error, response, bpc,
          subtitles, fps, titles, next_sub, xpc,
          vtt, cue_index, image_overlays,
          progress_store, now, jpc, model_size, video_file, vtt_file,
          current_model, current_model_size, loadable, loads, last_call, ncalls>>

(***************************************************************************)
(* Bounds of the model.                                                    *)
(***************************************************************************)
MaxLines == 4
MaxCues == 2
MaxComments == 3
ScenarioComments == 6

(***************************************************************************)
(* Generic helpers.                                                        *)
(***************************************************************************)
Range(s) == {s[i] : i \in DOMAIN s}

SeqsUpTo(S, n) == UNION {[1..k -> S] : k \in 0..n}

Min(S) == CHOOSE x \in S : \A y \in S : x <= y

RECURSIVE SortedSeq(_)
\* sorted(list(points)): the ascending list of a finite set of integers
SortedSeq(S) == IF S = {} THEN <<>> ELSE <<Min(S)>> \o SortedSeq(S \ {Min(S)})

RECURSIVE Concat(_)
\* list.extend over a list of lists
Concat(ss) == IF ss = <<>> THEN <<>> ELSE Head(ss) \o Concat(Tail(ss))

\* int(x) of the quotient a / b for b > 0: truncation towards zero
TruncDiv(a, b) == IF a >= 0 THEN a \div b ELSE -((-a) \div b)

(***************************************************************************)
(* Idle values of the three parts, for the specifications that do not run  *)
(* them.                                                                   *)
(***************************************************************************)
IdleParse ==
    /\ lines = <<>> /\ in_cue = FALSE /\ text_lines = <<>>
    /\ current_start = 0 /\ current_end = 0 /\ ppc = "idle"

IdleAss ==
    /\ styles = <<>> /\ saved_styles = <<>> /\ style_map = <<>>
    /\ expanded_events = <<>> /\ merged_events = <<>> /\ ass_lines = <<>>
    /\ apc = "idle"

IdleDm ==
    /\ comments = <<>> /\ cfg = <<>> /\ sorted_comments = <<>>
    /\ lane_available_times = <<>> /\ chosen_lane = -1 /\ base_speed = 0
    /\ dm_lines = <<>>
    /\ emoji_map = <<>> /\ emoji_dir = <<>> /\ emoji_overlays = <<>>
    /\ dpc = "idle"

IdleCodec ==
    /\ time_str = <<>> /\ parsed = <<>> /\ ass_time = <<>>
    /\ hex_literal = <<>> /\ ass_color = <<>> /\ vp_ass_color = <<>>
    /\ cpc = "idle"

IdleFf ==
    /\ ff_call = <<>> /\ cmd = <<>> /\ filter_script = <<>> /\ list_file = <<>>
    /\ result = <<>> /\ outcome = <<>> /\ runs = 0 /\ fpc = "idle"

IdleBurn ==
    /\ request = <<>> /\ comments_data = <<>> /\ danmaku_file = ""
    /\ main_overlays = <<>> /\ error = "" /\ response = <<>> /\ bpc = "idle"

IdleFcp ==
    /\ subtitles = <<>> /\ fps = 0 /\ titles = <<>> /\ next_sub = 0 /\ xpc = "idle"

IdlePrefix == vtt = <<>> /\ cue_index = 0 /\ image_overlays = <<>>

IdleJob ==
    /\ progress_store = <<>> /\ now = 0 /\ jpc = <<>> /\ model_size = <<>>
    /\ video_file = FALSE /\ vtt_file = FALSE

\* the values of current_model: None, the name deleted, or a model object
None == [kind |-> "None", size |-> "", id |-> 0]
Unbound == [kind |-> "unbound", size |-> "", id |-> 0]
Model(size, id) == [kind |-> "model", size |-> size, id |-> id]

IdleModel ==
    /\ current_model = None /\ current_model_size = "" /\ loadable = {} /\ loads = 0
    /\ last_call = <<>> /\ ncalls = 0

IdleApi == IdleBurn /\ IdleFcp /\ IdlePrefix /\ IdleJob /\ IdleModel

(***************************************************************************)
(* Time codec.                                                             *)
(***************************************************************************)
\* A cue-time string is the list of its colon-separated groups; a group is
\* a number >= 0 (the last one in ms, as it may carry a fraction) or
\* BadGroup, which stands for a group float()/int() cannot convert.
BadGroup == -1

\* parse_vtt_time: rightmost group seconds, then minutes, then hours.
\* float()/int() raise on a non-numeric group: ok is FALSE then.
parse_vtt_time(parts) ==
    LET n == Len(parts) IN
    IF \/ parts[n] = BadGroup
       \/ n > 1 /\ parts[n - 1] = BadGroup
       \/ n > 2 /\ parts[n - 2] = BadGroup
    THEN [ok |-> FALSE, v |-> 0]
    ELSE [ok |-> TRUE,
          v |-> parts[n]
                + (IF n > 1 THEN parts[n - 1] * 60000 ELSE 0)
                + (IF n > 2 THEN parts[n - 2] * 3600000 ELSE 0)]

\* seconds_to_ass_time: H:MM:SS.cc as <<h, m, centiseconds of the SS.cc field>>.
\* "%05.2f" rounds the seconds field to the nearest centisecond; the model's
\* time domains hold no tie (ms % 10 = 5), whose direction depends on the
\* binary representation.
seconds_to_ass_time(seconds) ==
    LET h == seconds \div 3600000
        m == (seconds % 3600000) \div 60000
        s == seconds % 60000
    IN <<h, m, (s + 5) \div 10>>

(***************************************************************************)
(* Cue parser: generate_ass, lines 159-196.                                *)
(***************************************************************************)
\* A stripped line of the cue file, by what the parser tests in it:
\*   "time"   holds "-->"; sep says whether it holds " --> " with its
\*            spaces, a and b are the two time strings;
\*   "text"   any other non-blank line; t is its content, webvtt says
\*            whether it holds the header marker "WEBVTT";
\*   "blank"  empty after strip.
TimeLine(a, b) == [k |-> "time", sep |-> TRUE, a |-> a, b |-> b]
\* a line holding "-->" without the spaces split(" --> ") looks for
UnspacedTimeLine(a, b) == [k |-> "time", sep |-> FALSE, a |-> a, b |-> b]
TextLine(t) == [k |-> "text", t |-> t, digits |-> FALSE, webvtt |-> FALSE]
DigitsLine(t) == [k |-> "text", t |-> t, digits |-> TRUE, webvtt |-> FALSE]
HeaderLine == [k |-> "text", t |-> "WEBVTT", digits |-> FALSE, webvtt |-> TRUE]
MarkedTextLine == [k |-> "text", t |-> "about WEBVTT", digits |-> FALSE, webvtt |-> TRUE]
BlankLine == [k |-> "blank"]

HasArrow(l) == l.k = "time"
IsBlank(l) == l.k = "blank"
HasWebvtt(l) == l.k = "text" /\ l.webvtt
IsDigit(l) == l.k = "text" /\ l.digits

\* The lines the parser is run on.
LineSet ==
    { TimeLine(<<0, 0, 0>>, <<0, 0, 1000>>),
      TimeLine(<<1, 0>>, <<1, 2500>>),
      TimeLine(<<0, BadGroup, 0>>, <<0, 0, 1000>>),
      UnspacedTimeLine(<<0, 0, 0>>, <<0, 0, 1000>>),
      TextLine("Hello"), DigitsLine("1"), HeaderLine, MarkedTextLine, BlankLine }

\* stripped.split(" --> "): the two time strings, or the whole line as one
\* element when the separator has no spaces around it.
SplitArrow(l) == IF l.sep THEN <<l.a, l.b>> ELSE <<l.a>>

RECURSIVE JoinLines(_)
\* "\\N".join(text_lines): the lines with the break marker between them
JoinLines(tl) ==
    IF Len(tl) = 0 THEN <<>>
    ELSE IF Len(tl) = 1 THEN <<tl[1]>>
    ELSE <<tl[1], "\\N">> \o JoinLines(Tail(tl))

Cue(s, e, tl) == [start_sec |-> s, end_sec |-> e, text |-> JoinLines(tl)]

\* lines 170-175: a line holding "-->"
ParseTimeLine ==
    /\ ppc = "read" /\ lines # <<>>
    /\ HasArrow(Head(lines))
    /\ LET times == SplitArrow(Head(lines))
           s == parse_vtt_time(times[1])
           \* times[1] of a one-element list raises IndexError
           e == IF Len(times) > 1 THEN parse_vtt_time(times[2]) ELSE [ok |-> FALSE, v |-> 0]
       IN IF ~s.ok \/ ~e.ok
          THEN \* the exception leaves generate_ass
               /\ ppc' = "error"
               /\ UNCHANGED <<in_cue, text_lines, current_start, current_end>>
          ELSE /\ current_start' = s.v
               /\ current_end' = e.v
               /\ in_cue' = TRUE
               /\ text_lines' = <<>>
               /\ ppc' = "read"
    /\ lines' = Tail(lines)
    /\ UNCHANGED <<events>>

\* lines 176-179: a non-blank line inside a cue that does not hold "WEBVTT"
ParseTextLine ==
    /\ ppc = "read" /\ lines # <<>>
    /\ LET l == Head(lines) IN
       /\ ~HasArrow(l) /\ ~IsBlank(l) /\ in_cue /\ ~HasWebvtt(l)
       /\ text_lines' = IF IsDigit(l) /\ text_lines = <<>>
                        THEN text_lines
                        ELSE Append(text_lines, l.t)
    /\ lines' = Tail(lines)
    /\ UNCHANGED <<in_cue, current_start, current_end, events, ppc>>

\* mutant of ParseBlankLine: the cue is emitted but the parser stays InCue
ParseBlankLineStaysInCue ==
    /\ ppc = "read" /\ lines # <<>>
    /\ ~HasArrow(Head(lines)) /\ IsBlank(Head(lines)) /\ in_cue
    /\ events' = IF text_lines # <<>>
                 THEN Append(events, Cue(current_start, current_end, text_lines))
                 ELSE events
    /\ lines' = Tail(lines)
    /\ UNCHANGED <<in_cue, text_lines, current_start, current_end, ppc>>

\* lines 180-188: a blank line inside a cue
ParseBlankLine ==
    /\ ppc = "read" /\ lines # <<>>
    /\ ~HasArrow(Head(lines)) /\ IsBlank(Head(lines)) /\ in_cue
    /\ events' = IF text_lines # <<>>
                 THEN Append(events, Cue(current_start, current_end, text_lines))
                 ELSE events
    /\ in_cue' = FALSE
    /\ lines' = Tail(lines)
    /\ UNCHANGED <<text_lines, current_start, current_end, ppc>>

\* lines 168-188: a line no branch takes (outside a cue, or the header
\* marker inside one)
ParseSkipLine ==
    /\ ppc = "read" /\ lines # <<>>
    /\ LET l == Head(lines) IN
       /\ ~HasArrow(l)
       /\ ~(~IsBlank(l) /\ in_cue /\ ~HasWebvtt(l))
       /\ ~(IsBlank(l) /\ in_cue)
    /\ lines' = Tail(lines)
    /\ UNCHANGED <<in_cue, text_lines, current_start, current_end, events, ppc>>

\* lines 190-196: end of input
ParseEnd ==
    /\ ppc = "read" /\ lines = <<>>
    /\ events' = IF in_cue /\ text_lines # <<>>
                 THEN Append(events, Cue(current_start, current_end, text_lines))
                 ELSE events
    /\ ppc' = "done"
    /\ UNCHANGED <<lines, in_cue, text_lines, current_start, current_end>>

InitParse ==
    /\ lines \in SeqsUpTo(LineSet, MaxLines)
    /\ in_cue = FALSE /\ text_lines = <<>>
    /\ current_start = 0 /\ current_end = 0
    /\ events = <<>>
    /\ ppc = "read"
    /\ IdleAss /\ IdleDm /\ IdleCodec /\ IdleFf /\ IdleApi

NextParse ==
    \/ ParseTimeLine /\ UNCHANGED <<assVars, dmVars, codecVars, ffVars, apiVars>>
    \/ ParseTextLine /\ UNCHANGED <<assVars, dmVars, codecVars, ffVars, apiVars>>
    \/ ParseBlankLine /\ UNCHANGED <<assVars, dmVars, codecVars, ffVars, apiVars>>
    \/ ParseSkipLine /\ UNCHANGED <<assVars, dmVars, codecVars, ffVars, apiVars>>
    \/ ParseEnd /\ UNCHANGED <<assVars, dmVars, codecVars, ffVars, apiVars>>

SpecParse == InitParse /\ [][NextParse]_vars

(***************************************************************************)
(* Style objects and colours.                                              *)
(***************************************************************************)
\* dict.get(key, default)
Get(d, key, default) == IF key \in DOMAIN d THEN d[key] ELSE default

\* hex_to_ass_color: the colour is the list of its hex digits after the
\* leading "#"; the result is <<alpha, blue, green, red>>.
hex_to_ass_color(hex_color) ==
    LET Byte(i) == 16 * hex_color[i] + hex_color[i + 1] IN
    IF Len(hex_color) = 6 THEN <<0, Byte(5), Byte(3), Byte(1)>>
    ELSE IF Len(hex_color) = 8 THEN <<255 - Byte(7), Byte(5), Byte(3), Byte(1)>>
    ELSE <<0, 0, 0, 0>>

White == <<15, 15, 15, 15, 15, 15>>
Black == <<0, 0, 0, 0, 0, 0>>
HalfBlack == <<0, 0, 0, 0, 0, 0, 8, 0>>
ClearBlack == <<0, 0, 0, 0, 0, 0, 0, 0>>

\* alignment_map.get(style_obj.get('alignment', 'center'), 2)
AlignmentCode(style_obj) ==
    LET a == Get(style_obj, "alignment", "center") IN
    CASE a = "left" -> 1 [] a = "center" -> 2 [] a = "right" -> 3
      [] a = "top-left" -> 7 [] a = "top" -> 8 [] a = "top-right" -> 9
      [] OTHER -> 2

\* int(x * 1.5)
Scale15(x) == TruncDiv(x * 3, 2)

\* int(x * 10.8)
Scale108(x) == TruncDiv(x * 108, 10)

\* A number of a style object may be a fraction: style_obj.den[key] is then
\* its denominator (> 0) and style_obj[key] its numerator; without the
\* entry the number is the whole number style_obj[key].
Den(style_obj, key) ==
    IF "den" \in DOMAIN style_obj /\ key \in DOMAIN style_obj["den"]
    THEN style_obj["den"][key] ELSE 1

\* mutant of Scaled15: a positive number is never scaled to 0
Scaled15AtLeastOne(style_obj, key, default) ==
    LET v == TruncDiv(3 * Get(style_obj, key, default), 2 * Den(style_obj, key))
    IN IF Get(style_obj, key, default) > 0 /\ v = 0 THEN 1 ELSE v

\* int(style_obj.get(key, default) * 1.5) for a number that may be a fraction
Scaled15(style_obj, key, default) ==
    TruncDiv(3 * Get(style_obj, key, default), 2 * Den(style_obj, key))

\* name.replace(" ", "_").replace(",", "") on a name given as its tokens
RECURSIVE SafeName(_)
SafeName(name) ==
    IF name = <<>> THEN <<>>
    ELSE IF Head(name) = " " THEN <<"_">> \o SafeName(Tail(name))
    ELSE IF Head(name) = "," THEN SafeName(Tail(name))
    ELSE <<Head(name)>> \o SafeName(Tail(name))

DefaultName == <<"Default">>

\* saved_styles is an insertion-ordered dict: a list of (name, obj) entries
\* with distinct names; None and {} are both the empty list.
HasStyle(saved, name) == \E i \in DOMAIN saved : saved[i].name = name
StyleOf(saved, name) == saved[CHOOSE i \in DOMAIN saved : saved[i].name = name].obj

\* create_style_def (lines 61-156), with h_multiplier = 1.0 (no video_info)
create_style_def(name, style_obj) ==
    LET font_size == Scale15(Get(style_obj, "fontSize", 24))
        primary_color == hex_to_ass_color(Get(style_obj, "color", White))
        back_color == hex_to_ass_color(Get(style_obj, "backgroundColor", HalfBlack))
        outline_color == hex_to_ass_color(Get(style_obj, "outlineColor", Black))
        outline_width == Scale15(Get(style_obj, "outlineWidth", 0))
        outer_outline_color == hex_to_ass_color(Get(style_obj, "outerOutlineColor", White))
        outer_outline_width == Scaled15(style_obj, "outerOutlineWidth", 0)
        shadow_color == hex_to_ass_color(Get(style_obj, "shadowColor", Black))
        shadow_blur == Scale15(Get(style_obj, "shadowBlur", 0))
        margin_v == Scale108(Get(style_obj, "bottom", 10))
        alignment == AlignmentCode(style_obj)
        total_outline == outline_width + outer_outline_width
        box_padding == IF outline_width > 8 THEN outline_width ELSE 8
        has_image == "prefixImage" \in DOMAIN style_obj /\ style_obj["prefixImage"] # ""
        margin_l == IF alignment \in {1, 7}
                    THEN 150 + (IF has_image
                                THEN Get(style_obj, "prefixImageSize", 32) + 10
                                ELSE 0)
                    ELSE 96
        margin_r == IF alignment \in {3, 9} THEN 150 ELSE 96
        Row(suffix, primary, outline_c, back_c, border, outline, shadow) ==
            [kind |-> "Style", name |-> name \o <<suffix>>, fontsize |-> font_size,
             primary |-> primary, outline_colour |-> outline_c, back_colour |-> back_c,
             border_style |-> border, outline |-> outline, shadow |-> shadow,
             alignment |-> alignment, margin_l |-> margin_l, margin_r |-> margin_r,
             margin_v |-> margin_v]
        shadow_value == IF outer_outline_width = 0 THEN shadow_blur ELSE 0
    IN [definitions |->
            <<Row("_Box", <<255, 0, 0, 0>>, back_color, back_color, 3, box_padding, 0)>>
            \o (IF outer_outline_width > 0
                THEN <<Row("_Outer", outer_outline_color, outer_outline_color, shadow_color,
                           1, total_outline, shadow_blur)>>
                ELSE <<>>)
            \o <<Row("_Inner", primary_color, outline_color, shadow_color, 1,
                     outline_width, shadow_value)>>
            \o <<Row("_Text", primary_color, <<0, 0, 0, 0>>, <<0, 0, 0, 0>>, 1, 0, 0)>>,
        has_outer |-> outer_outline_width > 0]

(***************************************************************************)
(* Per-cue expansion: generate_ass, lines 207-260.  i is the 0-based index *)
(* of the cue.                                                             *)
(***************************************************************************)
\* lines 216-219: the assignment of cue i names a saved style
FoundStyle(i, saved, smap) == i \in DOMAIN smap /\ saved # <<>> /\ HasStyle(saved, smap[i])

\* mutant of StyleNameFor: an assigned name is used whether or not it is saved
StyleNameForNoFallback(i, saved, smap) ==
    IF i \in DOMAIN smap THEN SafeName(smap[i]) ELSE DefaultName

\* lines 208, 216-220
StyleNameFor(i, saved, smap) ==
    IF FoundStyle(i, saved, smap) THEN SafeName(smap[i]) ELSE DefaultName

\* lines 214, 221
StyleObjFor(i, default_style, saved, smap) ==
    IF FoundStyle(i, saved, smap) THEN StyleOf(saved, smap[i]) ELSE default_style

\* lines 209, 216-229: the else of line 226 belongs to the test of line 216
HasOuterFor(i, default_style, saved, smap) ==
    IF i \in DOMAIN smap
    THEN (IF FoundStyle(i, saved, smap)
          THEN Scaled15(StyleOf(saved, smap[i]), "outerOutlineWidth", 0) > 0
          ELSE FALSE)
    ELSE Scaled15(default_style, "outerOutlineWidth", 0) > 0

ExpandEvent(i, event, default_style, saved, smap) ==
    LET style_name == StyleNameFor(i, saved, smap)
        style_obj == StyleObjFor(i, default_style, saved, smap)
        has_outer == HasOuterFor(i, default_style, saved, smap)
        has_image == "prefixImage" \in DOMAIN style_obj /\ style_obj["prefixImage"] # ""
        prefix == IF has_image THEN "" ELSE Get(style_obj, "prefix", "")
        e_outline_width == Scale15(Get(style_obj, "outlineWidth", 0))
    IN [start |-> event.start_sec,
        end |-> event.end_sec,
        text |-> event.text,
        style_name |-> style_name,
        alignment |-> AlignmentCode(style_obj),
        has_outer |-> has_outer,
        prefix |-> prefix,
        font_size |-> Scale15(Get(style_obj, "fontSize", 24)),
        base_margin_v |-> Scale108(Get(style_obj, "bottom", 10)),
        box_padding |-> IF e_outline_width > 8 THEN e_outline_width ELSE 8]

ExpandAll(evs, default_style, saved, smap) ==
    [p \in DOMAIN evs |-> ExpandEvent(p - 1, evs[p], default_style, saved, smap)]

(***************************************************************************)
(* Overlap flattening and line stacking: generate_ass, lines 264-331.      *)
(***************************************************************************)
\* line 279: boundary pairs closer than 0.01 s are skipped
MinGap == 10

\* line 309
LineGap == 3

\* lines 268-272
TimePoints(ex) == {ex[i].start : i \in DOMAIN ex} \cup {ex[i].end : i \in DOMAIN ex}

\* mutant of ActiveAt: activity tested at t_start with the end included
ActiveAtStartClosed(ex, t_start, t_end) ==
    LET Active(e) == e.start <= t_start /\ e.end >= t_start
    IN SelectSeq(ex, Active)

\* line 285, with mid = (t_start + t_end) / 2.0
ActiveAt(ex, t_start, t_end) ==
    LET Active(e) == 2 * e.start <= t_start + t_end /\ 2 * e.end > t_start + t_end
    IN SelectSeq(ex, Active)

RECURSIVE AlignKeys(_)
\* lines 290-294: the keys of by_align in insertion order
AlignKeys(active) ==
    IF active = <<>> THEN <<>>
    ELSE LET a == Head(active).alignment
             Other(e) == e.alignment # a
         IN <<a>> \o AlignKeys(SelectSeq(Tail(active), Other))

AlignGroup(active, a) == LET Same(e) == e.alignment = a IN SelectSeq(active, Same)

RECURSIVE SplitBreaks(_, _)
\* str.split('\\N') on a text given as its tokens; cur is the line being read
SplitBreaks(text, cur) ==
    IF text = <<>> THEN <<cur>>
    ELSE IF Head(text) = "\\N" THEN <<cur>> \o SplitBreaks(Tail(text), <<>>)
    ELSE SplitBreaks(Tail(text), Append(cur, Head(text)))

\* line 303
DispText(e) == IF e.prefix # "" THEN <<e.prefix, " ">> \o e.text ELSE e.text

\* mutant of AllLines: the lines are collected from the last cue of the
\* group to the first
AllLinesLastFirst(group) ==
    Concat([g \in DOMAIN group |->
               SplitBreaks(DispText(group[Len(group) + 1 - g]), <<>>)])

\* lines 301-306
AllLines(group) == Concat([g \in DOMAIN group |-> SplitBreaks(DispText(group[g]), <<>>)])

\* mutant of OffsetIdx: bottom-anchored lines stacked like top-anchored ones
OffsetIdxNoFlip(k, count, is_top) == k

\* lines 314-321: k is the 0-based index of the line
OffsetIdx(k, count, is_top) == IF is_top THEN k ELSE (count - 1) - k

\* mutant of FinalMarginV: the line offset is not added
FinalMarginVFlat(base_v, offset_idx, font_size) == base_v

\* line 321: int(base_v + offset_idx * (font_size * 1.1 + gap))
FinalMarginV(base_v, offset_idx, font_size) ==
    TruncDiv(base_v * 10 + offset_idx * (font_size * 11 + LineGap * 10), 10)

\* lines 297-331: the merged events of one alignment group
StackGroup(group, t_start, t_end) ==
    LET primary == group[1]
        all_lines == AllLines(group)
        is_top == primary.alignment \in {7, 8, 9}
    IN [n \in DOMAIN all_lines |->
            [start |-> t_start,
             end |-> t_end,
             style_name |-> primary.style_name,
             has_outer |-> primary.has_outer,
             alignment |-> primary.alignment,
             line_text |-> all_lines[n],
             margin_v |-> FinalMarginV(primary.base_margin_v,
                                       OffsetIdx(n - 1, Len(all_lines), is_top),
                                       primary.font_size)]]

\* lines 276-331: the merged events of one boundary pair
IntervalEvents(ex, t_start, t_end) ==
    IF t_end - t_start < MinGap THEN <<>>
    ELSE LET active == ActiveAt(ex, t_start, t_end)
             keys == AlignKeys(active)
         IN Concat([a \in DOMAIN keys |->
                        StackGroup(AlignGroup(active, keys[a]), t_start, t_end)])

\* lines 265-331
MergeEvents(ex) ==
    LET times == SortedSeq(TimePoints(ex))
    IN Concat([j \in 1..(Len(times) - 1) |-> IntervalEvents(ex, times[j], times[j + 1])])

(***************************************************************************)
(* Markup emission: generate_ass, lines 334-417.                           *)
(***************************************************************************)
PlayResX == 1920
PlayResY == 1080

\* lines 384-394
PosX(align) ==
    IF align \in {1, 7} THEN 150
    ELSE IF align \in {3, 9} THEN PlayResX - 150
    ELSE PlayResX \div 2

\* lines 397-400
PosY(align, mv) == IF align \in {1, 2, 3} THEN PlayResY - mv ELSE mv

\* mutant of EventRows: the text fill is emitted before the inner outline
EventRowsTextFirst(event) ==
    LET s_start == seconds_to_ass_time(event.start)
        s_end == seconds_to_ass_time(event.end)
        pos == <<PosX(event.alignment), PosY(event.alignment, event.margin_v)>>
        Row(layer, suffix) ==
            [kind |-> "Dialogue", layer |-> layer, start |-> s_start, end |-> s_end,
             style |-> event.style_name \o <<suffix>>, pos |-> pos,
             text |-> event.line_text]
    IN <<Row(0, "_Box")>>
       \o (IF event.has_outer THEN <<Row(1, "_Outer")>> ELSE <<>>)
       \o <<Row(3, "_Text"), Row(2, "_Inner")>>

\* lines 369-417: the event rows of one merged event
EventRows(event) ==
    LET s_start == seconds_to_ass_time(event.start)
        s_end == seconds_to_ass_time(event.end)
        sty == event.style_name
        pos == <<PosX(event.alignment), PosY(event.alignment, event.margin_v)>>
        Row(layer, suffix) ==
            [kind |-> "Dialogue", layer |-> layer, start |-> s_start, end |-> s_end,
             style |-> sty \o <<suffix>>, pos |-> pos, text |-> event.line_text]
    IN <<Row(0, "_Box")>>
       \o (IF event.has_outer THEN <<Row(1, "_Outer")>> ELSE <<>>)
       \o <<Row(2, "_Inner"), Row(3, "_Text")>>

\* lines 349-358: the style table
StyleRows(default_style, saved) ==
    create_style_def(DefaultName, default_style).definitions
    \o Concat([i \in DOMAIN saved |->
                   create_style_def(SafeName(saved[i].name), saved[i].obj).definitions])

\* lines 334-417: the rows written to the markup file
AssLines(default_style, saved, merged) ==
    <<[kind |-> "Section", name |-> "[Script Info]"],
      [kind |-> "Section", name |-> "[V4+ Styles]"]>>
    \o StyleRows(default_style, saved)
    \o <<[kind |-> "Section", name |-> "[Events]"]>>
    \o Concat([i \in DOMAIN merged |-> EventRows(merged[i])])

(***************************************************************************)
(* generate_ass after parsing, as three steps.                             *)
(***************************************************************************)
Expand ==
    /\ apc = "parsed"
    /\ expanded_events' = ExpandAll(events, styles, saved_styles, style_map)
    /\ apc' = "expanded"
    /\ UNCHANGED <<events, styles, saved_styles, style_map, merged_events, ass_lines>>

Merge ==
    /\ apc = "expanded"
    /\ merged_events' = MergeEvents(expanded_events)
    /\ apc' = "merged"
    /\ UNCHANGED <<events, styles, saved_styles, style_map, expanded_events, ass_lines>>

Write ==
    /\ apc = "merged"
    /\ ass_lines' = AssLines(styles, saved_styles, merged_events)
    /\ apc' = "written"
    /\ UNCHANGED <<events, styles, saved_styles, style_map, expanded_events, merged_events>>

(***************************************************************************)
(* Inputs of generate_ass.                                                 *)
(***************************************************************************)
StylePlain == [fontFamily |-> "Noto Sans JP"]
StyleOuter == [outerOutlineWidth |-> 2, shadowBlur |-> 5, backgroundColor |-> Black]
StyleTop == [alignment |-> "top", prefix |-> "[A]", fontSize |-> 30]
StyleImage == [alignment |-> "top-left", prefix |-> "[B]", prefixImage |-> "/icon.png",
               backgroundColor |-> ClearBlack, outerOutlineWidth |-> 1]

NameTop == <<"Top">>
NameSpaced == <<"A", " ", "B">>
NameUnder == <<"A", "_", "B">>
NameComma == <<"Default", ",">>
NameMissing == <<"Missing">>

Entry(name, obj) == [name |-> name, obj |-> obj]

\* cue boundaries in ms: whole seconds, and one boundary 4 ms after another
Times == {0, 1000, 1004, 2000, 3000}
CueRanges == {<<a, b>> \in Times \X Times : a < b} \cup {<<2000, 1000>>}
CueTexts == <<"Hello", "World", "Again", "More">>

\* cues that differ in their timing, each either unassigned or assigned a
\* top-aligned saved style
TimingInputs ==
    /\ styles = StylePlain
    /\ saved_styles = <<Entry(NameTop, StyleTop)>>
    /\ \E n \in 1..MaxCues :
        /\ \E rs \in [1..n -> CueRanges] :
             events = [p \in 1..n |-> Cue(rs[p][1], rs[p][2], <<CueTexts[p]>>)]
        /\ \E S \in SUBSET (0..(n - 1)) : style_map = [i \in S |-> NameTop]

\* two overlapping cues' timing, with every combination of default style,
\* saved styles and assignment
StyleInputs ==
    /\ styles \in {StylePlain, StyleOuter, StyleTop}
    /\ saved_styles \in
         { <<>>,
           <<Entry(NameSpaced, StyleOuter), Entry(NameUnder, StylePlain)>>,
           <<Entry(NameComma, StyleImage)>>,
           <<Entry(NameSpaced, StyleTop), Entry(NameComma, StyleOuter)>> }
    /\ \E n \in 1..MaxCues :
        /\ \E long \in [1..n -> BOOLEAN] :
             events = [p \in 1..n |->
                          IF long[p] THEN Cue(0, 3000, <<CueTexts[p]>>)
                          ELSE Cue(1000, 2000, <<CueTexts[p], "too">>)]
        /\ \E S \in SUBSET (0..(n - 1)) :
             style_map \in [S -> {NameSpaced, NameUnder, NameComma, NameMissing}]

\* a style with outer outline width n/d and shadow blur
StyleWith(n, d, blur) ==
    [outerOutlineWidth |-> n, den |-> [outerOutlineWidth |-> d], shadowBlur |-> blur]

\* outer outline widths 0, 0.5, 1, 3 and -1
OutlineWidths == {<<0, 1>>, <<1, 2>>, <<1, 1>>, <<3, 1>>, <<-1, 1>>}
OutlineStyles == {StyleWith(w[1], w[2], blur) : w \in OutlineWidths, blur \in {0, 5}}

\* one cue, with every combination of outer outline width and shadow blur
\* in the default style and in a saved style
OutlineInputs ==
    /\ styles \in OutlineStyles
    /\ saved_styles \in {<<>>} \cup {<<Entry(NameTop, st)>> : st \in OutlineStyles}
    /\ events = <<Cue(0, 3000, <<"Hello">>)>>
    /\ \E S \in SUBSET {0} : style_map = [i \in S |-> NameTop]

InitAss ==
    /\ TimingInputs \/ StyleInputs \/ OutlineInputs
    /\ expanded_events = <<>> /\ merged_events = <<>> /\ ass_lines = <<>>
    /\ apc = "parsed"
    /\ IdleParse /\ IdleDm /\ IdleCodec /\ IdleFf /\ IdleApi

NextAss ==
    \/ Expand /\ UNCHANGED <<parseVars, dmVars, codecVars, ffVars, apiVars>>
    \/ Merge /\ UNCHANGED <<parseVars, dmVars, codecVars, ffVars, apiVars>>
    \/ Write /\ UNCHANGED <<parseVars, dmVars, codecVars, ffVars, apiVars>>

SpecAss == InitAss /\ [][NextAss]_vars

(***************************************************************************)
(* Claims about flattening and stacking.                                   *)
(***************************************************************************)
Flattened == apc \in {"merged", "written"}

\* instants at which coverage is compared: each boundary, the instant
\* before it and the instant after it (coverage is constant in between)
Probes == {t \in UNION {{b - 1, b, b + 1} : b \in Times} : t >= 0}

Alignments == {1, 2, 3, 7, 8, 9}

CueCovers(e, t) == e.start <= t /\ t < e.end

OneAlignmentClass ==
    \A i, j \in DOMAIN expanded_events :
        expanded_events[i].alignment = expanded_events[j].alignment

\* two events have the same window or windows that do not intersect
WindowsDisjoint ==
    \A i, j \in DOMAIN merged_events :
        LET a == merged_events[i]
            b == merged_events[j]
        IN \/ a.alignment # b.alignment
           \/ a.start = b.start /\ a.end = b.end
           \/ a.end <= b.start
           \/ b.end <= a.start

EventAt(a, t) ==
    \E i \in DOMAIN merged_events :
        merged_events[i].alignment = a /\ CueCovers(merged_events[i], t)

CueAt(a, t) ==
    \E i \in DOMAIN expanded_events :
        expanded_events[i].alignment = a /\ CueCovers(expanded_events[i], t)

\* the length of the piece between two consecutive cue boundaries that
\* holds instant t (t lies between the first and the last boundary)
PieceLength(t) ==
    LET pts == TimePoints(expanded_events)
        lo == CHOOSE x \in pts : x <= t /\ \A y \in pts : y <= t => y <= x
        hi == CHOOSE x \in pts : x > t /\ \A y \in pts : y > t => x <= y
    IN hi - lo

\* C1 as stated: for cues sharing one alignment class the event windows are
\* pairwise disjoint and their union is the union of the cue ranges
\* [start,end): no covered instant is left without an event.
C1_ExactTiling ==
    (Flattened /\ OneAlignmentClass) =>
        /\ WindowsDisjoint
        /\ \A a \in Alignments : \A t \in Probes : EventAt(a, t) <=> CueAt(a, t)

\* C1 as amended: in every alignment class the event windows are pairwise
\* disjoint and their union is the union of the cue ranges of the class
\* minus the pieces between consecutive cue boundaries that are shorter
\* than 0.01 s, which get no event.
C1_TilingButShortPieces ==
    Flattened =>
        /\ WindowsDisjoint
        /\ \A a \in Alignments : \A t \in Probes :
              EventAt(a, t) <=> (CueAt(a, t) /\ PieceLength(t) >= MinGap)

\* C1 witness: two overlapping cues of one alignment class were flattened
\* into several windows, and a piece shorter than 0.01 s of a cue was dropped.
C1_Witness ==
    /\ apc = "merged" /\ OneAlignmentClass
    /\ Len(expanded_events) = 2
    /\ expanded_events[1].start < expanded_events[2].start
    /\ expanded_events[2].start < expanded_events[1].end
    /\ Cardinality({merged_events[i].start : i \in DOMAIN merged_events}) >= 2
    /\ \E t \in Probes : CueAt(2, t) /\ ~EventAt(2, t)

\* the merged events of one window and alignment, in emission order
GroupOf(start, end, a) ==
    LET In(m) == m.start = start /\ m.end = end /\ m.alignment = a
    IN SelectSeq(merged_events, In)

\* the lines of the cues of alignment a that are active throughout
\* [start,end), in the order of the cues
ExpectedLines(start, end, a) ==
    LET On(e) == e.alignment = a /\ e.start <= start /\ end <= e.end
        cues == SelectSeq(expanded_events, On)
    IN Concat([c \in DOMAIN cues |-> SplitBreaks(DispText(cues[c]), <<>>)])

LineTexts(group) == [k \in DOMAIN group |-> group[k].line_text]

\* screen y of a merged event (y grows downwards)
ScreenY(m) == PosY(m.alignment, m.margin_v)

ScenarioA ==
    /\ events = <<Cue(0, 3000, <<"Hello">>), Cue(1000, 2000, <<"World">>)>>
    /\ DOMAIN style_map = {}
    /\ styles = StylePlain

\* C2: in every flattened interval and alignment group the stacked lines are
\* the text lines (with the style's text prefix) of the cues active in the
\* interval, in encounter order, and line k is above line k+1 on screen for
\* bottom-anchored and top-anchored alignments alike; the cues {0-3,"Hello"}
\* and {1-2,"World"} give [0,1), [1,2), [2,3), of which only the middle
\* stacks two lines, Hello above World.
C2_StackOrder ==
    Flattened =>
        /\ \A i \in DOMAIN merged_events :
              LET m == merged_events[i]
                  group == GroupOf(m.start, m.end, m.alignment)
              IN /\ LineTexts(group) = ExpectedLines(m.start, m.end, m.alignment)
                 /\ \A k \in 1..(Len(group) - 1) : ScreenY(group[k]) < ScreenY(group[k + 1])
        /\ ScenarioA =>
              /\ [i \in DOMAIN merged_events |->
                     <<merged_events[i].start, merged_events[i].end,
                       merged_events[i].line_text>>]
                 = << <<0, 1000, <<"Hello">> >>, <<1000, 2000, <<"Hello">> >>,
                      <<1000, 2000, <<"World">> >>, <<2000, 3000, <<"Hello">> >> >>
              /\ ScreenY(merged_events[2]) < ScreenY(merged_events[3])

\* C2 witness: the two cues of scenario A were flattened.
C2_Witness == ScenarioA /\ apc = "merged" /\ Len(merged_events) = 4

\* value of a formatted H:MM:SS.cc time in centiseconds
AssTimeCs(t) == t[1] * 360000 + t[2] * 6000 + t[3]

RowsOverlap(r1, r2) ==
    /\ AssTimeCs(r1.start) < AssTimeCs(r2.end)
    /\ AssTimeCs(r2.start) < AssTimeCs(r1.end)

\* C3: no two emitted render events of the same layer and the same
\* alignment have overlapping time windows and the same anchor point.
C3_DistinctAnchors ==
    apc = "written" =>
        \A i, j \in DOMAIN merged_events :
            (i < j /\ merged_events[i].alignment = merged_events[j].alignment) =>
                LET ri == EventRows(merged_events[i])
                    rj == EventRows(merged_events[j])
                IN \A x \in DOMAIN ri : \A y \in DOMAIN rj :
                      (ri[x].layer = rj[y].layer /\ RowsOverlap(ri[x], rj[y]))
                          => ri[x].pos # rj[y].pos

\* C3 witness: two overlapping cues of one top-anchored alignment were merged
\* into one group of stacked lines and written.
C3_Witness ==
    /\ apc = "written"
    /\ \E i, j \in DOMAIN merged_events :
          /\ i < j
          /\ merged_events[i].alignment = 8 /\ merged_events[j].alignment = 8
          /\ merged_events[i].start = merged_events[j].start
          /\ RowsOverlap(EventRows(merged_events[i])[1], EventRows(merged_events[j])[1])
    /\ \E i, j \in DOMAIN expanded_events :
          /\ i < j
          /\ expanded_events[i].alignment = 8 /\ expanded_events[j].alignment = 8
          /\ expanded_events[i].start < expanded_events[j].end
          /\ expanded_events[j].start < expanded_events[i].end

(***************************************************************************)
(* Claims about styles and emission.                                       *)
(***************************************************************************)
IsStyle(r) == r.kind = "Style"
IsDialogue(r) == r.kind = "Dialogue"

StyleDefined(name) ==
    \E s \in DOMAIN ass_lines : IsStyle(ass_lines[s]) /\ ass_lines[s].name = name

\* C7: every event row references a style row that is defined in the style
\* table, for every combination of default style, saved styles and
\* assignment, and all style rows precede all event rows.
C7_StyleRefsDefined ==
    apc = "written" =>
        \A d \in DOMAIN ass_lines :
            IsDialogue(ass_lines[d]) =>
                /\ StyleDefined(ass_lines[d].style)
                /\ \A s \in DOMAIN ass_lines : IsStyle(ass_lines[s]) => s < d

\* C7 witness: rows were written for a cue assigned an undefined name and
\* for a cue assigned a saved style with an outer outline.
C7_Witness ==
    /\ apc = "written"
    /\ \E i \in DOMAIN style_map : ~HasStyle(saved_styles, style_map[i])
    /\ \E d \in DOMAIN ass_lines :
          IsDialogue(ass_lines[d]) /\ ass_lines[d].style = <<"A", "_", "B", "_Outer">>
    /\ \E d \in DOMAIN ass_lines :
          IsDialogue(ass_lines[d]) /\ ass_lines[d].style = <<"Default", "_Box">>

NoAssignment == [i \in {} |-> DefaultName]

\* C8: a cue whose assignment names an undefined style is expanded exactly
\* like a cue with no assignment (same style name, alignment, prefix, font
\* size, base margin and has-outer flag).
C8_FallbackLikeUnassigned ==
    apc \in {"expanded", "merged", "written"} =>
        \A p \in DOMAIN events :
            ((p - 1) \in DOMAIN style_map /\ ~HasStyle(saved_styles, style_map[p - 1])) =>
                expanded_events[p]
                    = ExpandEvent(p - 1, events[p], styles, saved_styles, NoAssignment)

\* the dialogue rows of the markup
DialogueRows == SelectSeq(ass_lines, IsDialogue)

ExpectedLayers(m) == IF m.has_outer THEN <<0, 1, 2, 3>> ELSE <<0, 2, 3>>

\* for each dialogue row, the index of the merged event it renders
RowOwner ==
    Concat([i \in DOMAIN merged_events |->
               [k \in DOMAIN ExpectedLayers(merged_events[i]) |-> i]])

\* C9 as stated, for the box: a box event (layer 0) is emitted only if the
\* background alpha of its style is less than fully opaque.
C9_BoxOnlyIfNotOpaque ==
    apc = "written" =>
        \A d \in DOMAIN ass_lines : \A s \in DOMAIN ass_lines :
            (/\ IsDialogue(ass_lines[d]) /\ ass_lines[d].layer = 0
             /\ IsStyle(ass_lines[s]) /\ ass_lines[s].name = ass_lines[d].style)
                => ass_lines[s].back_colour[1] # 0

\* C9 as amended: every stacked line emits its render events in ascending
\* layer order, all with the interval's start and end and the line's anchor
\* point: the box (layer 0), inner-outline (layer 2) and text (layer 3)
\* events always, whatever the background alpha, and the outer-outline event
\* (layer 1) only for a style that has an outer-outline row.
C9_LayersPerLine ==
    apc = "written" =>
        /\ Len(DialogueRows) = Len(RowOwner)
        /\ [d \in DOMAIN DialogueRows |-> DialogueRows[d].layer]
               = Concat([i \in DOMAIN merged_events |-> ExpectedLayers(merged_events[i])])
        /\ \A d \in DOMAIN DialogueRows :
              LET r == DialogueRows[d]
                  m == merged_events[RowOwner[d]]
              IN /\ r.start = seconds_to_ass_time(m.start)
                 /\ r.end = seconds_to_ass_time(m.end)
                 /\ r.pos = <<PosX(m.alignment), ScreenY(m)>>
                 /\ r.text = m.line_text
                 /\ r.layer = 1 => StyleDefined(m.style_name \o <<"_Outer">>)

\* C9 witness: a line was written with its box although its background is
\* fully opaque, and another with an outer-outline event.
C9_Witness ==
    /\ apc = "written"
    /\ \E d \in DOMAIN ass_lines : \E s \in DOMAIN ass_lines :
          /\ IsDialogue(ass_lines[d]) /\ ass_lines[d].layer = 0
          /\ IsStyle(ass_lines[s]) /\ ass_lines[s].name = ass_lines[d].style
          /\ ass_lines[s].back_colour[1] = 0
    /\ \E d \in DOMAIN ass_lines : IsDialogue(ass_lines[d]) /\ ass_lines[d].layer = 1

(***************************************************************************)
(* Claims about the cue parser.                                            *)
(***************************************************************************)
WellFormedTime(l) ==
    /\ HasArrow(l) /\ l.sep
    /\ parse_vtt_time(l.a).ok /\ parse_vtt_time(l.b).ok

OpenCue == [start_sec |-> current_start, end_sec |-> current_end, text |-> JoinLines(text_lines)]

\* C10: the parser is a two-state machine (Idle, InCue): a time-range line
\* enters InCue; a blank line while InCue returns to Idle and emits the cue
\* if and only if it has accumulated text; at end of input an open cue with
\* text is emitted; lines seen while Idle that are no time-range line
\* (the header marker included) neither produce nor alter a cue.
C10_ParserMachine ==
    [][ppc = "read" =>
          /\ in_cue \in BOOLEAN /\ in_cue' \in BOOLEAN
          /\ (lines # <<>> /\ WellFormedTime(Head(lines))) =>
                /\ in_cue' /\ events' = events /\ text_lines' = <<>>
                /\ current_start' = parse_vtt_time(Head(lines).a).v
                /\ current_end' = parse_vtt_time(Head(lines).b).v
          /\ (lines # <<>> /\ IsBlank(Head(lines)) /\ in_cue) =>
                /\ ~in_cue'
                /\ events' = IF text_lines # <<>> THEN Append(events, OpenCue) ELSE events
          /\ lines = <<>> =>
                /\ ppc' = "done"
                /\ events' = IF in_cue /\ text_lines # <<>>
                             THEN Append(events, OpenCue) ELSE events
          /\ (lines # <<>> /\ ~HasArrow(Head(lines)) /\ ~in_cue) =>
                /\ ~in_cue' /\ events' = events
                /\ UNCHANGED <<text_lines, current_start, current_end>>
          /\ (lines # <<>> /\ ~HasArrow(Head(lines)) /\ ~IsBlank(Head(lines)) /\ in_cue) =>
                in_cue' /\ events' = events
      ]_vars

\* C10 witness: the input was read to its end; a cue was closed by a blank
\* line and emitted, and a later time-range line left a cue open without
\* text, which the end of input did not emit.
C10_Witness ==
    /\ ppc = "done"
    /\ events = <<Cue(0, 1000, <<"Hello">>)>>
    /\ in_cue /\ text_lines = <<>>

(***************************************************************************)
(* Scroll-comment scheduler: generate_danmaku_ass, lines 456-567.  A       *)
(* comment's text is the list of its characters.                           *)
(***************************************************************************)
MarginTop == 50
MarginBottom == 100

\* line 426: the parameters of a call with its own speed band
BandConfig(rx, ry, fs, smin, smax) ==
    [resolution_x |-> rx, resolution_y |-> ry, font_size |-> fs,
     speed_min |-> smin, speed_max |-> smax]

\* line 426: speed_min=8, speed_max=12 when the caller gives none
Config(rx, ry, fs) == BandConfig(rx, ry, fs, 8, 12)
Comment(text, ts) == [text |-> text, timestamp |-> ts]

\* line 459: int(font_size * 1.2)
LaneHeight(c) == TruncDiv(c.font_size * 12, 10)

\* lines 458-460
NumLanes(c) ==
    LET usable_height == c.resolution_y - MarginTop - MarginBottom
        n == usable_height \div LaneHeight(c)
    IN IF n > 1 THEN n ELSE 1

RECURSIVE InsertByTimestamp(_, _)
\* the place of c in a list sorted by timestamp: after every comment that
\* is not later (sorted() is stable)
InsertByTimestamp(sorted, c) ==
    IF sorted = <<>> THEN <<c>>
    ELSE IF Head(sorted).timestamp <= c.timestamp
         THEN <<Head(sorted)>> \o InsertByTimestamp(Tail(sorted), c)
         ELSE <<c>> \o sorted

\* mutant of SortByTimestamp: the comments are taken in the caller's order
SortByTimestampUnsorted(cs) == cs

RECURSIVE SortByTimestamp(_)
\* line 463: sorted(comments, key=timestamp)
SortByTimestamp(cs) ==
    IF cs = <<>> THEN <<>>
    ELSE InsertByTimestamp(SortByTimestamp(SubSeq(cs, 1, Len(cs) - 1)), cs[Len(cs)])

\* lines 478-487
StartX(c) == c.resolution_x + 100
EndX(c, text) == -(Len(text) * c.font_size * 2 + 300)
TotalDistance(c, text) == StartX(c) - EndX(c, text)

\* line 491: values random.uniform(600, 700) is sampled at; the scenario of
\* 10 s transits (font size 140, 15 characters) is run at 652 px/s
SpeedSamples(c) == IF c.font_size = 140 THEN {652} ELSE {600, 700}

\* line 495, in ms
Duration(c, text, speed) == (TotalDistance(c, text) * 1000) \div speed

\* line 510: start_time + duration * 0.3
OccupiedUntil(start_time, duration) == start_time + (duration * 3) \div 10

\* mutant of FreeLanes: every lane counts as free
FreeLanesAll(lat, start_time) == {l \in 0..(Len(lat) - 1) : TRUE}

\* lines 501-506: the lanes the shuffled search can stop at
FreeLanes(lat, start_time) == {l \in 0..(Len(lat) - 1) : start_time >= lat[l + 1]}

\* mutant of FallbackLane: the first lane, whatever its availability
FallbackLaneFirst(lat) == 0

\* line 508: min(range(num_lanes), key=...) is the first lane of least value
FallbackLane(lat) ==
    Min({l \in 0..(Len(lat) - 1) : \A k \in 0..(Len(lat) - 1) : lat[l + 1] <= lat[k + 1]})

\* line 511
YPos(c, lane) == MarginTop + lane * LaneHeight(c) + LaneHeight(c) \div 2

\* ---- emoji shortcuts, lines 466 and 514-560
\* the first position after i that holds a colon or whitespace, 0 if none
FirstStop(text, i) ==
    LET stops == {j \in (i + 1)..Len(text) : text[j] \in {":", " "}}
    IN IF stops = {} THEN 0 ELSE Min(stops)

\* emoji_pattern ":[^:\s]+:" tried at position i: the position of the
\* closing colon, 0 if there is no match at i
MatchEnd(text, i) ==
    IF i <= Len(text) /\ text[i] = ":"
    THEN LET j == FirstStop(text, i)
         IN IF j > i + 1 /\ text[j] = ":" THEN j ELSE 0
    ELSE 0

RECURSIVE SplitFrom(_, _, _)
SplitFrom(text, i, gap) ==
    IF i > Len(text) THEN <<gap>>
    ELSE IF MatchEnd(text, i) > 0
         THEN <<gap, SubSeq(text, i, MatchEnd(text, i))>>
              \o SplitFrom(text, MatchEnd(text, i) + 1, <<>>)
         ELSE SplitFrom(text, i + 1, Append(gap, text[i]))

\* emoji_pattern.split(original_text): the text between the matches and
\* the matches, in turn
EmojiSplit(text) == SplitFrom(text, 1, <<>>)

\* "  "
Placeholder == <<" ", " ">>

\* lines 536-543: the descriptor of one emoji of a comment; x_expr is kept
\* as the numbers it is written from
Overlay(ctx, img_name, current_offset_chars) ==
    [path |-> <<emoji_dir.path, img_name>>,
     start |-> ctx.start_time,
     end |-> ctx.end_time,
     x_expr |-> [start_x |-> ctx.start_x, start_time |-> ctx.start_time,
                 duration |-> ctx.duration, distance |-> ctx.start_x - ctx.end_x,
                 char_offset_px |-> current_offset_chars * ctx.font_size],
     y_pos |-> ctx.y_pos - ctx.font_size \div 2,
     size |-> TruncDiv(ctx.font_size * 12, 10)]

RECURSIVE ProcessPartsNoFileCheck(_, _, _)
\* mutant of ProcessParts: the image file is not looked for
ProcessPartsNoFileCheck(parts, current_offset_chars, ctx) ==
    IF parts = <<>> THEN [text |-> <<>>, overlays |-> <<>>]
    ELSE LET part == Head(parts)
             hit == MatchEnd(part, 1) > 0 /\ part \in DOMAIN emoji_map
             rest == ProcessPartsNoFileCheck(Tail(parts),
                        current_offset_chars + (IF hit THEN 2 ELSE Len(part)), ctx)
         IN [text |-> (IF hit THEN Placeholder ELSE part) \o rest.text,
             overlays |-> (IF hit
                           THEN <<Overlay(ctx, emoji_map[part], current_offset_chars)>>
                           ELSE <<>>) \o rest.overlays]

RECURSIVE ProcessParts(_, _, _)
\* lines 521-559: the loop over the parts, from the part at the head on
ProcessParts(parts, current_offset_chars, ctx) ==
    IF parts = <<>> THEN [text |-> <<>>, overlays |-> <<>>]
    ELSE LET part == Head(parts)
             hit == /\ MatchEnd(part, 1) > 0 /\ part \in DOMAIN emoji_map
                    /\ emoji_map[part] \in emoji_dir.files
             rest == ProcessParts(Tail(parts),
                        current_offset_chars + (IF hit THEN 2 ELSE Len(part)), ctx)
         IN [text |-> (IF hit THEN Placeholder ELSE part) \o rest.text,
             overlays |-> (IF hit
                           THEN <<Overlay(ctx, emoji_map[part], current_offset_chars)>>
                           ELSE <<>>) \o rest.overlays]

\* line 516: emoji_map and emoji_dir are both given and not empty
EmojiEnabled == DOMAIN emoji_map # {} /\ emoji_dir.path # ""

\* lines 514-560: display_text and the descriptors of one comment
EmojiPass(c, comment, duration, lane) ==
    LET ctx == [start_time |-> comment.timestamp,
                end_time |-> comment.timestamp + duration,
                duration |-> duration,
                start_x |-> StartX(c), end_x |-> EndX(c, comment.text),
                y_pos |-> YPos(c, lane), font_size |-> c.font_size]
    IN IF EmojiEnabled
       THEN ProcessParts(EmojiSplit(comment.text), 0, ctx)
       ELSE [text |-> comment.text, overlays |-> <<>>]

\* lines 562-567; start_time and end_time are the values the row's two
\* time fields are formatted from
DanmakuRow(c, comment, duration, lane) ==
    [kind |-> "Dialogue", layer |-> 0,
     start_time |-> comment.timestamp,
     end_time |-> comment.timestamp + duration,
     start |-> seconds_to_ass_time(comment.timestamp),
     end |-> seconds_to_ass_time(comment.timestamp + duration),
     style |-> "Danmaku",
     move |-> <<StartX(c), YPos(c, lane), EndX(c, comment.text), YPos(c, lane)>>,
     text |-> EmojiPass(c, comment, duration, lane).text]

\* lines 468-567 with the lane `lane`
Place(comment, duration, lane) ==
    /\ chosen_lane' = lane
    /\ lane_available_times' =
          [lane_available_times EXCEPT ![lane + 1] = OccupiedUntil(comment.timestamp, duration)]
    /\ dm_lines' = Append(dm_lines, DanmakuRow(cfg, comment, duration, lane))
    /\ emoji_overlays' = emoji_overlays \o EmojiPass(cfg, comment, duration, lane).overlays
    /\ sorted_comments' = Tail(sorted_comments)
    /\ UNCHANGED <<comments, cfg, emoji_map, emoji_dir, dpc>>

\* lines 469-471: a comment without text is skipped
SkipEmpty ==
    /\ dpc = "sched" /\ sorted_comments # <<>>
    /\ Head(sorted_comments).text = <<>>
    /\ sorted_comments' = Tail(sorted_comments)
    /\ UNCHANGED <<comments, cfg, lane_available_times, chosen_lane, base_speed, dm_lines,
                   emoji_map, emoji_dir, emoji_overlays, dpc>>

\* lines 473-567, a free lane found by the shuffled search (lines 503-506)
ScheduleFree ==
    /\ dpc = "sched" /\ sorted_comments # <<>>
    /\ Head(sorted_comments).text # <<>>
    /\ LET comment == Head(sorted_comments) IN
       \E speed \in SpeedSamples(cfg) :
       \E lane \in FreeLanes(lane_available_times, comment.timestamp) :
           /\ base_speed' = speed
           /\ Place(comment, Duration(cfg, comment.text, speed), lane)

\* lines 473-567, no lane free (lines 507-508)
ScheduleFallback ==
    /\ dpc = "sched" /\ sorted_comments # <<>>
    /\ Head(sorted_comments).text # <<>>
    /\ LET comment == Head(sorted_comments) IN
       /\ FreeLanes(lane_available_times, comment.timestamp) = {}
       /\ \E speed \in SpeedSamples(cfg) :
             /\ base_speed' = speed
             /\ Place(comment, Duration(cfg, comment.text, speed),
                      FallbackLane(lane_available_times))

\* lines 569-572: the loop is over, the file is written
Finish ==
    /\ dpc = "sched" /\ sorted_comments = <<>>
    /\ dpc' = "done"
    /\ UNCHANGED <<comments, cfg, sorted_comments, lane_available_times, chosen_lane,
                   base_speed, dm_lines, emoji_map, emoji_dir, emoji_overlays>>

(***************************************************************************)
(* Inputs of generate_danmaku_ass.                                         *)
(***************************************************************************)
\* two lanes, and one lane
SmallConfigs == {Config(1920, 270, 48), Config(1920, 1080, 800)}

CommentSet ==
    {Comment(<<>>, 1000), Comment(<<"a">>, 0), Comment(<<"a">>, 1000), Comment(<<"a">>, 2000)}

\* five lanes; comments of 15 characters 2 s apart, each on screen 10 s
ScenarioConfig == Config(1920, 1080, 140)
ScenarioD ==
    [i \in 1..ScenarioComments |-> Comment([k \in 1..15 |-> "a"], 2000 * (i - 1))]

\* emoji_dir=None
NoEmojiDir == [path |-> "", files |-> {}]

\* a call that asks for 300 to 400 px/s
BandConfigs == {BandConfig(1920, 270, 48, 300, 400)}

InitDm ==
    /\ \/ cfg \in SmallConfigs \cup BandConfigs /\ comments \in SeqsUpTo(CommentSet, MaxComments)
       \/ cfg = ScenarioConfig /\ comments = ScenarioD
    /\ sorted_comments = SortByTimestamp(comments)
    /\ lane_available_times = [l \in 1..NumLanes(cfg) |-> 0]
    /\ chosen_lane = -1 /\ base_speed = 0
    /\ dm_lines = <<>>
    /\ emoji_map = <<>> /\ emoji_dir = NoEmojiDir /\ emoji_overlays = <<>>
    /\ dpc = "sched"
    /\ events = <<>>
    /\ IdleParse /\ IdleAss /\ IdleCodec /\ IdleFf /\ IdleApi

NextDm ==
    \/ SkipEmpty /\ UNCHANGED <<events, parseVars, assVars, codecVars, ffVars, apiVars>>
    \/ ScheduleFree /\ UNCHANGED <<events, parseVars, assVars, codecVars, ffVars, apiVars>>
    \/ ScheduleFallback /\ UNCHANGED <<events, parseVars, assVars, codecVars, ffVars, apiVars>>
    \/ Finish /\ UNCHANGED <<events, parseVars, assVars, codecVars, ffVars, apiVars>>

SpecDm == InitDm /\ [][NextDm]_vars

\* the scheduling loop is sequential code: it takes its next step
SpecDmFair == SpecDm /\ WF_vars(NextDm)

(***************************************************************************)
(* Claims about the scroll-comment scheduler.                              *)
(***************************************************************************)
Lanes == 0..(NumLanes(cfg) - 1)

Scheduling == dpc = "sched" /\ sorted_comments # <<>> /\ Head(sorted_comments).text # <<>>

\* C4: a comment is assigned a lane whose availableAfter is greater than
\* its start only when every lane's availableAfter is greater than its
\* start, and then the lane has the least availableAfter of all lanes; for
\* every comment and every outcome of the shuffle.
C4_BusyLaneOnlyAsFallback ==
    [][Scheduling =>
          LET start_time == Head(sorted_comments).timestamp
              lane == chosen_lane'
          IN /\ lane \in Lanes
             /\ dm_lines' # dm_lines
             /\ dm_lines'[Len(dm_lines')].move[2] = YPos(cfg, lane)
             /\ lane_available_times[lane + 1] > start_time =>
                   /\ \A l \in Lanes : lane_available_times[l + 1] > start_time
                   /\ \A l \in Lanes :
                         lane_available_times[lane + 1] <= lane_available_times[l + 1]
      ]_vars

\* C4 witness: with two lanes, a comment was placed by the fallback on the
\* second lane, the one of least availableAfter.
C4_Witness ==
    /\ NumLanes(cfg) = 2 /\ Len(dm_lines) = 3 /\ chosen_lane = 1
    /\ dm_lines[1].move[2] = YPos(cfg, 1)
    /\ dm_lines[2].move[2] = YPos(cfg, 0)
    /\ dm_lines[3].start_time < OccupiedUntil(dm_lines[1].start_time,
                                              dm_lines[1].end_time - dm_lines[1].start_time)
    /\ dm_lines[3].start_time < OccupiedUntil(dm_lines[2].start_time,
                                              dm_lines[2].end_time - dm_lines[2].start_time)

\* the lane of an event row, from the y of its move tag
LaneOfRow(r) == (r.move[2] - MarginTop - LaneHeight(cfg) \div 2) \div LaneHeight(cfg)

WindowsOverlap(r1, r2) == r1.start_time < r2.end_time /\ r2.start_time < r1.end_time

\* the number of comments on screen when row j starts, row j included
ActiveWith(j) ==
    Cardinality({k \in 1..j : /\ dm_lines[k].start_time <= dm_lines[j].start_time
                              /\ dm_lines[j].start_time < dm_lines[k].end_time})

\* C5 as stated: no two comments whose windows [start,end) overlap are
\* assigned the same lane unless the number of simultaneously active
\* comments exceeds the lane count.
C5_NoSharedLaneWhileOnScreen ==
    \A i, j \in DOMAIN dm_lines :
        (/\ i < j
         /\ WindowsOverlap(dm_lines[i], dm_lines[j])
         /\ LaneOfRow(dm_lines[i]) = LaneOfRow(dm_lines[j]))
            => ActiveWith(j) > NumLanes(cfg)

\* when row j starts, the comment placed last on lane l before it is still
\* within the first 30% of its transit
LaneBusyFor(l, j) ==
    LET before == {k \in 1..(j - 1) : LaneOfRow(dm_lines[k]) = l} IN
    /\ before # {}
    /\ LET k == CHOOSE x \in before : \A y \in before : y <= x
       IN dm_lines[j].start_time
              < OccupiedUntil(dm_lines[k].start_time,
                              dm_lines[k].end_time - dm_lines[k].start_time)

\* C5 as amended: a comment is not assigned a lane whose most recently
\* placed comment is still within the first 30% of its transit, unless
\* that is so of every lane; comments whose windows [start,end) overlap may
\* share a lane once 30% of the earlier transit has passed.
C5_NoReuseWithinOccupancy ==
    \A j \in DOMAIN dm_lines :
        LaneBusyFor(LaneOfRow(dm_lines[j]), j) => \A l \in Lanes : LaneBusyFor(l, j)

\* C5 witness: in the scenario of 10 s comments 2 s apart on five lanes two
\* comments on screen together share a lane, with three comments active.
C5_Witness ==
    /\ cfg = ScenarioConfig
    /\ Len(dm_lines) >= 3
    /\ dm_lines[1].end_time - dm_lines[1].start_time = 10000
    /\ LaneOfRow(dm_lines[1]) = LaneOfRow(dm_lines[3])
    /\ WindowsOverlap(dm_lines[1], dm_lines[3])
    /\ ActiveWith(3) = 3

Occurrences(seq, v) == Cardinality({i \in DOMAIN seq : seq[i] = v})

RowComment(r) == Comment(r.text, r.start_time)

\* when the pass is over: one event per comment with text, none for a
\* comment without, in ascending timestamp order, on a lane of the band
AllEmitted ==
    LET emitted == [i \in DOMAIN dm_lines |-> RowComment(dm_lines[i])] IN
    /\ \A c \in Range(comments) \cup Range(emitted) :
          Occurrences(emitted, c) = IF c.text = <<>> THEN 0 ELSE Occurrences(comments, c)
    /\ \A i \in 1..(Len(dm_lines) - 1) : dm_lines[i].start_time <= dm_lines[i + 1].start_time
    /\ \A i \in DOMAIN dm_lines :
          /\ LaneOfRow(dm_lines[i]) \in Lanes
          /\ dm_lines[i].move[2] = YPos(cfg, LaneOfRow(dm_lines[i]))

\* C6: the scheduling pass terminates and starves no comment: every comment
\* with text is emitted as exactly one scrolling event, in ascending
\* timestamp order, on a lane index in [0, laneCount), also when no lane is
\* free; comments without text are the only ones skipped.
C6_TerminatesAllEmitted == <>(dpc = "done") /\ [](dpc = "done" => AllEmitted)

\* C6 witness: a pass over three comments given out of timestamp order is
\* finished: the comment without text was skipped and the two others were
\* emitted on the only lane, the second while the lane was not free.
C6_Witness ==
    /\ dpc = "done" /\ NumLanes(cfg) = 1
    /\ \E i \in DOMAIN comments : comments[i].text = <<>>
    /\ Len(dm_lines) = 2 /\ Len(comments) = 3
    /\ LaneBusyFor(0, 2)
    /\ comments[1].timestamp > comments[3].timestamp

(***************************************************************************)
(* Claims about the cue parser: kept lines and malformed time-range lines  *)
(* (SpecParse).                                                            *)
(***************************************************************************)
\* the line the parser is about to read is a non-blank line without "-->"
\* and a cue is open
ReadsCueTextLine == ppc = "read" /\ lines # <<>> /\ Head(lines).k = "text" /\ in_cue

\* C11: a digits-only line is dropped only where it follows a blank line
\* (the parser is Idle there); every non-blank line between a cue's
\* time-range line and its closing blank line is appended to the cue's text,
\* in input order.
C11_CueLinesKept ==
    [][ReadsCueTextLine => text_lines' = Append(text_lines, Head(lines).t)]_vars

\* C12: a time-range line with a malformed timestamp never makes the parse
\* fail; the cue is skipped and reading goes on.
C12_MalformedCueSkipped == ppc # "error"

(***************************************************************************)
(* The time conversions on their own: a cue-time string is parsed by       *)
(* parse_vtt_time and the result formatted by seconds_to_ass_time.         *)
(***************************************************************************)
\* "{s:05.2f}" of the seconds field s (ms): the nearest centisecond.  When s
\* lies half-way between two centiseconds the float that stands for it is
\* just below, just above or exactly the tie, so either neighbour can be
\* printed.  The field can read 60.00.
FormatSecondsField(s) ==
    IF s % 10 = 5 THEN {s \div 10, s \div 10 + 1} ELSE {(s + 5) \div 10}

\* mutant of AssTimes: the minutes field is not reduced modulo the hour
AssTimesMinutesNotReduced(sec) ==
    {<<sec \div 3600000, sec \div 60000, cs>> : cs \in FormatSecondsField(sec % 60000)}

\* seconds_to_ass_time on any time: the strings H:MM:SS.cc it can return,
\* each as <<h, m, centiseconds of the SS.cc field>>
AssTimes(sec) ==
    {<<sec \div 3600000, (sec % 3600000) \div 60000, cs>> :
        cs \in FormatSecondsField(sec % 60000)}

\* the seconds group SS[.mmm] as its value in ms
SecondsGroups == {s * 1000 + f : s \in {0, 1, 59}, f \in {0, 4, 5, 15, 125, 995, 999}}
MinutesGroups == {0, 1, 59}
HoursGroups == {0, 1, 10}

\* the strings SS[.mmm], MM:SS[.mmm] and H:MM:SS[.mmm], and one string
\* with a non-numeric group
TimeStrings ==
    {<<s>> : s \in SecondsGroups}
    \cup {<<m, s>> : m \in MinutesGroups, s \in SecondsGroups}
    \cup {<<h, m, s>> : h \in HoursGroups, m \in MinutesGroups, s \in SecondsGroups}
    \cup {<<BadGroup, 0>>}

\* parse_vtt_time(time_str)
TimeParse ==
    /\ cpc = "time"
    /\ parsed' = parse_vtt_time(time_str)
    /\ cpc' = IF parse_vtt_time(time_str).ok THEN "parsed" ELSE "error"
    /\ UNCHANGED <<time_str, ass_time, hex_literal, ass_color, vp_ass_color>>

\* seconds_to_ass_time of the parsed value
TimeFormat ==
    /\ cpc = "parsed"
    /\ ass_time' \in AssTimes(parsed.v)
    /\ cpc' = "formatted"
    /\ UNCHANGED <<time_str, parsed, hex_literal, ass_color, vp_ass_color>>

InitTime ==
    /\ time_str \in TimeStrings
    /\ parsed = <<>> /\ ass_time = <<>>
    /\ hex_literal = <<>> /\ ass_color = <<>> /\ vp_ass_color = <<>>
    /\ cpc = "time"
    /\ events = <<>>
    /\ IdleParse /\ IdleAss /\ IdleDm /\ IdleFf /\ IdleApi

NextTime ==
    \/ TimeParse /\ UNCHANGED <<events, parseVars, assVars, dmVars, ffVars, apiVars>>
    \/ TimeFormat /\ UNCHANGED <<events, parseVars, assVars, dmVars, ffVars, apiVars>>

SpecTime == InitTime /\ [][NextTime]_vars

(***************************************************************************)
(* Claims about the time conversions (SpecTime).                           *)
(***************************************************************************)
\* the time a string [[H:]MM:]SS[.mmm] denotes, in ms
StringTime(parts) ==
    LET n == Len(parts) IN
    IF n = 1 THEN parts[1]
    ELSE IF n = 2 THEN parts[1] * 60000 + parts[2]
    ELSE parts[1] * 3600000 + parts[2] * 60000 + parts[3]

\* the time a string H:MM:SS.cc denotes, in ms
AssTimeValue(t) == t[1] * 3600000 + t[2] * 60000 + t[3] * 10

Distance(a, b) == IF a >= b THEN a - b ELSE b - a

\* C13: parsing a cue-time string [[H:]MM:]SS[.mmm] and formatting the
\* result gives a string that denotes a time within 0.01 s of the original.
C13_TimeRoundTrip ==
    cpc = "formatted" => Distance(AssTimeValue(ass_time), StringTime(time_str)) <= 10

\* C13 witness: an H:MM:SS.mmm string whose seconds field is printed as
\* 60.00 after rounding went through both conversions.
C13_Witness ==
    /\ cpc = "formatted"
    /\ time_str = <<1, 59, 59999>>
    /\ ass_time = <<1, 59, 6000>>

(***************************************************************************)
(* The colour conversion on its own: hex_to_ass_color of ass_generator and *)
(* the function of the same name in video_processing, run on one literal.  *)
(***************************************************************************)
\* mutant of vp_hex_to_ass_color: the colour bytes stay in the order red,
\* green, blue
vp_hex_to_ass_color_rgb(hex_color) ==
    LET Byte(i) == 16 * hex_color[i] + hex_color[i + 1] IN
    IF Len(hex_color) = 6 THEN <<0, Byte(1), Byte(3), Byte(5)>>
    ELSE IF Len(hex_color) = 8 THEN <<255 - Byte(7), Byte(1), Byte(3), Byte(5)>>
    ELSE <<255, 0, 0, 0>>

\* hex_to_ass_color of video_processing (the alpha parameter is not read):
\* as the one of ass_generator, but r, g, b, a start as 0, 0, 0, 255
vp_hex_to_ass_color(hex_color) ==
    LET Byte(i) == 16 * hex_color[i] + hex_color[i + 1] IN
    IF Len(hex_color) = 6 THEN <<0, Byte(5), Byte(3), Byte(1)>>
    ELSE IF Len(hex_color) = 8 THEN <<255 - Byte(7), Byte(5), Byte(3), Byte(1)>>
    ELSE <<255, 0, 0, 0>>

HexDigits == {0, 8, 15}

\* literals #RRGGBB and #RRGGBBAA, and literals of other lengths (the empty
\* one, the shorthand #RGB, #RGBA, and 7 and 9 digits)
ColorLiterals ==
    [1..6 -> HexDigits] \cup [1..8 -> HexDigits]
    \cup {<<>>} \cup [1..3 -> {0, 15}] \cup [1..4 -> {0, 15}]
    \cup {[i \in 1..7 |-> 15], [i \in 1..9 |-> 15]}

\* ass_generator.hex_to_ass_color(hex_literal)
ColorByGenerator ==
    /\ cpc = "color" /\ ass_color = <<>>
    /\ ass_color' = hex_to_ass_color(hex_literal)
    /\ UNCHANGED <<time_str, parsed, ass_time, hex_literal, vp_ass_color, cpc>>

\* video_processing.hex_to_ass_color(hex_literal)
ColorByBurner ==
    /\ cpc = "color" /\ vp_ass_color = <<>>
    /\ vp_ass_color' = vp_hex_to_ass_color(hex_literal)
    /\ UNCHANGED <<time_str, parsed, ass_time, hex_literal, ass_color, cpc>>

InitColor ==
    /\ hex_literal \in ColorLiterals
    /\ ass_color = <<>> /\ vp_ass_color = <<>>
    /\ time_str = <<>> /\ parsed = <<>> /\ ass_time = <<>>
    /\ cpc = "color"
    /\ events = <<>>
    /\ IdleParse /\ IdleAss /\ IdleDm /\ IdleFf /\ IdleApi

NextColor ==
    \/ ColorByGenerator /\ UNCHANGED <<events, parseVars, assVars, dmVars, ffVars, apiVars>>
    \/ ColorByBurner /\ UNCHANGED <<events, parseVars, assVars, dmVars, ffVars, apiVars>>

SpecColor == InitColor /\ [][NextColor]_vars

(***************************************************************************)
(* Claims about the colour conversion (SpecColor).                         *)
(***************************************************************************)
\* the byte written by the two hex digits at positions i and i + 1
ByteAt(lit, i) == 16 * lit[i] + lit[i + 1]

\* a packed value <<alpha, c1, c2, c3>> is that of the literal: alpha 0 for
\* six digits and 255 - AA for eight, then blue, green, red
PackedAsClaimed(lit, packed) ==
    /\ Len(lit) = 6 => packed[1] = 0
    /\ Len(lit) = 8 => 255 - packed[1] = ByteAt(lit, 7)
    /\ packed[2] = ByteAt(lit, 5)
    /\ packed[3] = ByteAt(lit, 3)
    /\ packed[4] = ByteAt(lit, 1)

\* C14: every #RRGGBB literal is packed with alpha byte 00 and every
\* #RRGGBBAA literal with alpha byte 255 - AA, so that inverting the packed
\* alpha gives AA back; the colour bytes follow in the order blue, green, red.
C14_PackedColor ==
    Len(hex_literal) \in {6, 8} =>
        /\ ass_color # <<>> => PackedAsClaimed(hex_literal, ass_color)
        /\ vp_ass_color # <<>> => PackedAsClaimed(hex_literal, vp_ass_color)

\* C14 witness: #0800F080 was converted by both functions: alpha 7F, then
\* blue F0, green 00, red 08.
C14_Witness ==
    /\ hex_literal = <<0, 8, 0, 0, 15, 0, 8, 0>>
    /\ ass_color = <<127, 240, 0, 8>>
    /\ vp_ass_color = <<127, 240, 0, 8>>

\* C15: for a literal whose length is neither 6 nor 8 the conversion fails;
\* no colour is ever returned for it.
C15_InvalidLengthRejected ==
    Len(hex_literal) \notin {6, 8} => ass_color = <<>> /\ vp_ass_color = <<>>

(***************************************************************************)
(* Claims about the style table (SpecAss).                                 *)
(***************************************************************************)
\* the styles whose rows are written, in the order of their rows: the
\* default style, then the saved styles
StyleSources == <<Entry(DefaultName, styles)>> \o saved_styles

StyleTable == SelectSeq(ass_lines, IsStyle)

\* the layer suffix of a style row: _Box, _Outer, _Inner or _Text
LayerOf(r) == r.name[Len(r.name)]

\* every style's rows begin with its _Box row: the rows of the k-th style
BlockOf(j) == Cardinality({i \in 1..j : LayerOf(StyleTable[i]) = "_Box"})
RowsOfSource(k) == {StyleTable[j] : j \in {i \in DOMAIN StyleTable : BlockOf(i) = k}}
LayerRows(k, layer) == {r \in RowsOfSource(k) : LayerOf(r) = layer}

ScaledShadow(obj) == Scale15(Get(obj, "shadowBlur", 0))

\* the rows of the k-th style: box and text without shadow, the shadow on
\* the outer row and none on the inner row
ShadowOnOuter(k, obj) ==
    /\ \E r \in LayerRows(k, "_Outer") : TRUE
    /\ \A r \in LayerRows(k, "_Outer") : r.shadow = ScaledShadow(obj)
    /\ \E r \in LayerRows(k, "_Inner") : TRUE
    /\ \A r \in LayerRows(k, "_Inner") : r.shadow = 0

\* the rows of the k-th style: no outer row, the shadow on the inner row
ShadowOnInner(k, obj) ==
    /\ LayerRows(k, "_Outer") = {}
    /\ \E r \in LayerRows(k, "_Inner") : TRUE
    /\ \A r \in LayerRows(k, "_Inner") : r.shadow = ScaledShadow(obj)

NoShadowOnBoxAndText(k) ==
    \A r \in LayerRows(k, "_Box") \cup LayerRows(k, "_Text") : r.shadow = 0

\* C16 as stated: for every style, outerOutlineWidth > 0 puts the scaled
\* shadow on an outer-outline row and 0 on the inner-outline row,
\* outerOutlineWidth = 0 gives no outer row and the shadow on the inner row;
\* the box and text rows have shadow 0.
C16_ShadowByWidth ==
    apc = "written" =>
        \A k \in DOMAIN StyleSources :
            LET obj == StyleSources[k].obj
                w == Get(obj, "outerOutlineWidth", 0)
            IN /\ w > 0 => ShadowOnOuter(k, obj)
               /\ w = 0 => ShadowOnInner(k, obj)
               /\ NoShadowOnBoxAndText(k)

\* C16 as the code has it: the test is made on the scaled width
\* int(outerOutlineWidth * 1.5), which is > 0 from a width of 2/3 on.  A
\* width w/d >= 2/3 puts the scaled shadow on the outer row and 0 on the
\* inner row; a width 0 <= w/d < 2/3 gives no outer row and the shadow on
\* the inner row.  For every width, the box and text rows have shadow 0 and
\* the outer and inner rows never both carry a shadow.
C16_ShadowByScaledWidth ==
    apc = "written" =>
        \A k \in DOMAIN StyleSources :
            LET obj == StyleSources[k].obj
                w == Get(obj, "outerOutlineWidth", 0)
                d == Den(obj, "outerOutlineWidth")
            IN /\ 3 * w >= 2 * d => ShadowOnOuter(k, obj)
               /\ (w >= 0 /\ 3 * w < 2 * d) => ShadowOnInner(k, obj)
               /\ NoShadowOnBoxAndText(k)
               /\ \A o \in LayerRows(k, "_Outer"), i \in LayerRows(k, "_Inner") :
                     o.shadow = 0 \/ i.shadow = 0

\* C16 witness: the table was written for a default style with outer
\* outline width 0 and shadow blur 5 (shadow 7 on Default_Inner, no outer
\* row) and a saved style with width 3 and blur 5 (shadow 7 on Top_Outer,
\* 0 on Top_Inner).
C16_Witness ==
    /\ apc = "written"
    /\ styles = StyleWith(0, 1, 5)
    /\ saved_styles = <<Entry(NameTop, StyleWith(3, 1, 5))>>
    /\ LayerRows(1, "_Outer") = {}
    /\ \E r \in LayerRows(1, "_Inner") : r.shadow = 7
    /\ \E r \in LayerRows(2, "_Outer") : r.shadow = 7 /\ r.name = <<"Top", "_Outer">>
    /\ \E r \in LayerRows(2, "_Inner") : r.shadow = 0

(***************************************************************************)
(* Encoder calls: extract_clip and merge_clips of video_clipper,           *)
(* burn_subtitles_with_ffmpeg of video_processing.  A filter graph is the  *)
(* list of its nodes; a label [name] or [name<i>] is the pair              *)
(* <<name, i>>, the input stream [k:v] is <<"stream", k>>.                 *)
(***************************************************************************)
MaxOverlays == 2

Label(name, i) == <<name, i>>
Stream(k) == <<"stream", k>>
NoLabel == <<"", 0>>

\* one filter of the graph: "<ins>op=...<out>"; image is the picture an
\* overlay stage loads, "" for the other stages
Node(op, ins, out, image) == [op |-> op, ins |-> ins, out |-> out, image |-> image]

\* one element of the argument list: a word (flag, path or number), a
\* filter graph given inline, or a label
Arg(word) == [k |-> word, graph |-> <<>>, label |-> NoLabel]
GraphArg(g) == [k |-> "graph", graph |-> g, label |-> NoLabel]
LabelArg(l) == [k |-> "label", graph |-> <<>>, label |-> l]

Overlays(call) == call.overlays

\* ---- extract_clip, lines 22-65: the filter list
\* lines 26-33: crop_params given, with width > 0 and height > 0
CropEnabled(call) == call.crop_params = "sized"

ClipAfterCrop(call) == IF CropEnabled(call) THEN Label("cropped", 0) ELSE Stream(0)

ClipAfterPad(call) ==
    IF call.aspect_ratio = "9:16" THEN Label("916", 0) ELSE ClipAfterCrop(call)

ClipAfterDanmaku(call) ==
    IF call.danmaku_ass_path THEN Label("danmaku", 0) ELSE ClipAfterPad(call)

\* current_v when overlay i (0-based) is reached
ClipOverlayIn(call, i) ==
    IF i = 0 THEN ClipAfterDanmaku(call) ELSE Label("v_emoji", i - 1)

\* lines 55-65: the three filters of overlay i
ClipOverlayNodes(call, i) ==
    LET image == Overlays(call)[i + 1] IN
    <<Node("movie", <<>>, Label("raw_emoji", i), image),
      Node("scale", <<Label("raw_emoji", i)>>, Label("img", i), image),
      Node("overlay", <<ClipOverlayIn(call, i), Label("img", i)>>, Label("v_emoji", i), image)>>

ClipFilters(call) ==
    (IF CropEnabled(call)
     THEN <<Node("crop", <<Stream(0)>>, Label("cropped", 0), "")>> ELSE <<>>)
    \o (IF call.aspect_ratio = "9:16"
        THEN <<Node("pad", <<ClipAfterCrop(call)>>, Label("916", 0), "")>> ELSE <<>>)
    \o (IF call.danmaku_ass_path
        THEN <<Node("subtitles", <<ClipAfterPad(call)>>, Label("danmaku", 0), "")>> ELSE <<>>)
    \o Concat([p \in DOMAIN Overlays(call) |-> ClipOverlayNodes(call, p - 1)])

\* current_v after the last filter
ClipCurrentV(call) ==
    IF Overlays(call) # <<>> THEN Label("v_emoji", Len(Overlays(call)) - 1)
    ELSE ClipAfterDanmaku(call)

\* lines 67-93: the argument list; the graph goes to the script file
ClipCmd(call) ==
    <<Arg("ffmpeg"), Arg("-y"), Arg("-ss"), Arg("start"), Arg("-i"), Arg("video_path"),
      Arg("-t"), Arg("duration")>>
    \o (IF ClipFilters(call) # <<>>
        THEN <<Arg("-filter_complex_script"), Arg("filter_script_path"),
               Arg("-map"), LabelArg(ClipCurrentV(call)), Arg("-map"), Arg("0:a?")>>
        ELSE <<>>)
    \o <<Arg("-c:v"), Arg("libx264"), Arg("-c:a"), Arg("aac"), Arg("-strict"),
         Arg("experimental"), Arg("output_path")>>

\* ---- burn_subtitles_with_ffmpeg, lines 136-277
\* lines 248-253: one element of filter_parts, holding the scale and the
\* overlay filter of image i (0-based)
BurnPart(call, i) ==
    LET image == Overlays(call)[i + 1]
        current_label == IF i = 0 THEN Label("subt", 0) ELSE Label("v", i)
    IN <<Node("scale", <<Stream(i + 1)>>, Label("img", i), image),
         Node("overlay", <<current_label, Label("img", i)>>, Label("v", i + 1), image)>>

\* str.replace(old, new) on one element of filter_parts: every occurrence
\* of the label is replaced
ReplaceLabel(part, old, new) ==
    LET R(l) == IF l = old THEN new ELSE l IN
    [j \in DOMAIN part |->
        [part[j] EXCEPT !.ins = [q \in DOMAIN part[j].ins |-> R(part[j].ins[q])],
                        !.out = R(part[j].out)]]

\* mutant of BurnFilterParts: the last label is not renamed to [out]
BurnFilterPartsNotRenamed(call) ==
    <<<<Node("subtitles", <<Stream(0)>>, Label("subt", 0), "")>>>>
    \o [p \in DOMAIN Overlays(call) |-> BurnPart(call, p - 1)]

\* lines 180-264: filter_parts after the last label was renamed to [out]
BurnFilterParts(call) ==
    LET n == Len(Overlays(call))
        parts == <<<<Node("subtitles", <<Stream(0)>>, Label("subt", 0), "")>>>>
                 \o [p \in DOMAIN Overlays(call) |-> BurnPart(call, p - 1)]
    IN IF n > 0
       THEN [parts EXCEPT ![n + 1] = ReplaceLabel(parts[n + 1], Label("v", n), Label("out", 0))]
       ELSE [parts EXCEPT ![1] = ReplaceLabel(parts[1], Label("subt", 0), Label("out", 0))]

\* lines 170-173: "-i" and the picture's path for every overlay
BurnImageInputs(call) ==
    Concat([p \in DOMAIN Overlays(call) |-> <<Arg("-i"), Arg(Overlays(call)[p])>>])

\* lines 149-158 and 266-277: the argument list
BurnCmd(call) ==
    IF Overlays(call) = <<>>
    THEN <<Arg("ffmpeg"), Arg("-y"), Arg("-i"), Arg("video_path"), Arg("-vf"),
           GraphArg(<<Node("subtitles", <<>>, NoLabel, "")>>),
           Arg("-c:a"), Arg("copy"), Arg("output_path")>>
    ELSE <<Arg("ffmpeg"), Arg("-y"), Arg("-i"), Arg("video_path")>>
         \o BurnImageInputs(call)
         \o <<Arg("-filter_complex"), GraphArg(Concat(BurnFilterParts(call))),
              Arg("-map"), LabelArg(Label("out", 0)), Arg("-map"), Arg("0:a?"),
              Arg("-c:a"), Arg("copy"), Arg("output_path")>>

\* ---- merge_clips, lines 123-131
MergeCmd ==
    <<Arg("ffmpeg"), Arg("-y"), Arg("-f"), Arg("concat"), Arg("-safe"), Arg("0"),
      Arg("-i"), Arg("list_file"), Arg("-c"), Arg("copy"), Arg("output_path")>>

\* ---- the calls
Call(fn, crop_params, aspect_ratio, danmaku_ass_path, overlays, clip_paths) ==
    [fn |-> fn, crop_params |-> crop_params, aspect_ratio |-> aspect_ratio,
     danmaku_ass_path |-> danmaku_ass_path, overlays |-> overlays,
     clip_paths |-> clip_paths]

Images == {"a.png", "b.png"}
OverlayLists == SeqsUpTo(Images, MaxOverlays)

\* extract_clip with crop_params absent, given with a size, or given with
\* width or height 0; aspect_ratio absent, '9:16' or another one; with or
\* without scroll-comment markup; with emoji overlays
ClipCalls ==
    {Call("extract_clip", c, a, d, o, <<>>) :
        c \in {"none", "sized", "flat"}, a \in {"none", "9:16", "16:9"},
        d \in BOOLEAN, o \in OverlayLists}

\* burn_subtitles_with_ffmpeg, by the prefix images found for the cues
BurnCalls ==
    {Call("burn_subtitles_with_ffmpeg", "none", "none", FALSE, o, <<>>) : o \in OverlayLists}

MergeCalls ==
    {Call("merge_clips", "none", "none", FALSE, <<>>, ps) :
        ps \in {<<"c1.mp4">>, <<"c1.mp4", "c2.mp4">>}}

\* extract_clip up to the encoder's start (lines 12-93)
ClipBuild ==
    /\ fpc = "call" /\ ff_call.fn = "extract_clip"
    /\ filter_script' = ClipFilters(ff_call)
    /\ cmd' = ClipCmd(ff_call)
    /\ fpc' = "built"
    /\ UNCHANGED <<ff_call, list_file, result, outcome, runs>>

\* burn_subtitles_with_ffmpeg up to the encoder's start (lines 140-277)
BurnBuild ==
    /\ fpc = "call" /\ ff_call.fn = "burn_subtitles_with_ffmpeg"
    /\ cmd' = BurnCmd(ff_call)
    /\ fpc' = "built"
    /\ UNCHANGED <<ff_call, filter_script, list_file, result, outcome, runs>>

\* merge_clips up to the encoder's start (lines 117-131)
MergeBuild ==
    /\ fpc = "call" /\ ff_call.fn = "merge_clips"
    /\ list_file' = ff_call.clip_paths
    /\ cmd' = MergeCmd
    /\ fpc' = "built"
    /\ UNCHANGED <<ff_call, filter_script, result, outcome, runs>>

\* subprocess.run(cmd, capture_output=True, text=True): the encoder ends
\* with any exit code, having written anything to stderr
RunEncoder ==
    /\ fpc = "built"
    /\ \E rc \in {0, 1}, err \in {"", "Invalid data found"} :
          result' = [returncode |-> rc, stderr |-> err]
    /\ runs' = runs + 1
    /\ fpc' = "ran"
    /\ UNCHANGED <<ff_call, cmd, filter_script, list_file, outcome>>

\* exit code 0: extract_clip and burn_subtitles_with_ffmpeg return
\* output_path, merge_clips removes its list file and returns None
ReturnPath ==
    /\ fpc = "ran" /\ result.returncode = 0
    /\ outcome' = [kind |-> "returned",
                   value |-> IF ff_call.fn = "merge_clips" THEN "None" ELSE "output_path",
                   stderr |-> ""]
    /\ list_file' = <<>>
    /\ fpc' = "done"
    /\ UNCHANGED <<ff_call, cmd, filter_script, result, runs>>

\* mutant of RaiseError: the output path is returned whatever the exit code
RaiseErrorSwallowed ==
    /\ fpc = "ran" /\ result.returncode # 0
    /\ outcome' = [kind |-> "returned", value |-> "output_path", stderr |-> ""]
    /\ list_file' = <<>>
    /\ fpc' = "done"
    /\ UNCHANGED <<ff_call, cmd, filter_script, result, runs>>

\* exit code not 0: CalledProcessError(returncode, cmd, stdout, stderr) is
\* raised (extract_clip re-raises it from its handler, merge_clips removes
\* its list file on the way out)
RaiseError ==
    /\ fpc = "ran" /\ result.returncode # 0
    /\ outcome' = [kind |-> "raised", value |-> "CalledProcessError",
                   stderr |-> result.stderr]
    /\ list_file' = <<>>
    /\ fpc' = "done"
    /\ UNCHANGED <<ff_call, cmd, filter_script, result, runs>>

InitFf ==
    /\ ff_call \in ClipCalls \cup BurnCalls \cup MergeCalls
    /\ cmd = <<>> /\ filter_script = <<>> /\ list_file = <<>>
    /\ result = <<>> /\ outcome = <<>> /\ runs = 0
    /\ fpc = "call"
    /\ events = <<>>
    /\ IdleParse /\ IdleAss /\ IdleDm /\ IdleCodec /\ IdleApi

NextFf ==
    \/ ClipBuild /\ UNCHANGED <<events, parseVars, assVars, dmVars, codecVars, apiVars>>
    \/ BurnBuild /\ UNCHANGED <<events, parseVars, assVars, dmVars, codecVars, apiVars>>
    \/ MergeBuild /\ UNCHANGED <<events, parseVars, assVars, dmVars, codecVars, apiVars>>
    \/ RunEncoder /\ UNCHANGED <<events, parseVars, assVars, dmVars, codecVars, apiVars>>
    \/ ReturnPath /\ UNCHANGED <<events, parseVars, assVars, dmVars, codecVars, apiVars>>
    \/ RaiseError /\ UNCHANGED <<events, parseVars, assVars, dmVars, codecVars, apiVars>>

SpecFf == InitFf /\ [][NextFf]_vars

(***************************************************************************)
(* Claims about the encoder calls (SpecFf).                                *)
(***************************************************************************)
Built == fpc \in {"built", "ran", "done"}
BuildsGraph == ff_call.fn \in {"extract_clip", "burn_subtitles_with_ffmpeg"}

HasArg(word) == \E a \in DOMAIN cmd : cmd[a].k = word
InlineGraphs == {cmd[a].graph : a \in {b \in DOMAIN cmd : cmd[b].k = "graph"}}
MappedLabels == {cmd[a].label : a \in {b \in DOMAIN cmd : cmd[b].k = "label"}}

\* the graph handed to the encoder: the script file's content, or the
\* inline graph, or none
Graph ==
    IF filter_script # <<>> THEN filter_script
    ELSE IF InlineGraphs # {} THEN CHOOSE g \in InlineGraphs : TRUE
    ELSE <<>>

IsStream(l) == l[1] = "stream"
IsMainStage(n) == n.op \in {"crop", "pad", "subtitles", "overlay"}
MainChain == SelectSeq(Graph, IsMainStage)
IsOverlay(n) == n.op = "overlay"
StageRank(n) ==
    CASE n.op = "crop" -> 1 [] n.op = "pad" -> 2 [] n.op = "subtitles" -> 3 [] OTHER -> 4

\* a graph whose filters carry labels: a linear chain from [0:v] in the
\* order crop, pad, subtitles, overlays, mapped at its last label
WellFormedChain ==
    /\ MainChain # <<>>
    /\ MainChain[1].ins[1] = Stream(0)
    /\ \A j \in 2..Len(MainChain) :
          /\ MainChain[j].ins[1] = MainChain[j - 1].out
          /\ StageRank(MainChain[j - 1]) < StageRank(MainChain[j])
             \/ (IsOverlay(MainChain[j - 1]) /\ IsOverlay(MainChain[j]))
    /\ \A a, b \in DOMAIN Graph : a # b => Graph[a].out # Graph[b].out
    /\ \A a \in DOMAIN Graph : \A q \in DOMAIN Graph[a].ins :
          \/ IsStream(Graph[a].ins[q])
          \/ \E b \in 1..(a - 1) : Graph[b].out = Graph[a].ins[q]
    /\ LET ov == SelectSeq(MainChain, IsOverlay)
       IN [j \in DOMAIN ov |-> ov[j].image] = Overlays(ff_call)
    /\ MappedLabels = {MainChain[Len(MainChain)].out}

\* C17: the filter graph built by extract_clip or
\* burn_subtitles_with_ffmpeg is a linear chain in the order crop,
\* aspect-pad, subtitle burn, image overlays in descriptor order; each stage
\* consumes the label of the stage before it, every label is produced once,
\* the subtitle burn precedes every overlay and the output is mapped to the
\* last stage's label.  A graph of the single unlabelled subtitle filter
\* (-vf) and a call without any stage map no label.
C17_LinearFilterChain ==
    (Built /\ BuildsGraph) =>
        IF Graph = <<>> THEN MappedLabels = {} /\ Overlays(ff_call) = <<>>
        ELSE IF HasArg("-vf")
        THEN /\ Len(Graph) = 1 /\ Graph[1].op = "subtitles"
             /\ MappedLabels = {} /\ Overlays(ff_call) = <<>>
        ELSE WellFormedChain

\* C17 witness: a clip was built with crop, pad, subtitle burn and two
\* overlays; its output is mapped to [v_emoji_1].
C17_Witness ==
    /\ Built /\ ff_call.fn = "extract_clip"
    /\ Len(MainChain) = 5
    /\ Overlays(ff_call) = <<"b.png", "a.png">>
    /\ MappedLabels = {Label("v_emoji", 1)}

\* the argument list the call would have built with its first overlay only
CmdWithOneOverlay ==
    LET one == [ff_call EXCEPT !.overlays = <<Overlays(ff_call)[1]>>]
    IN IF ff_call.fn = "extract_clip" THEN ClipCmd(one) ELSE BurnCmd(one)

\* C18: whenever the graph has image overlays it is handed to the encoder
\* through a script file and never inline, and the number of arguments is
\* the same for any number of overlays, in extract_clip and in
\* burn_subtitles_with_ffmpeg.
C18_GraphThroughScriptFile ==
    (Built /\ BuildsGraph /\ Overlays(ff_call) # <<>>) =>
        /\ filter_script # <<>>
        /\ HasArg("-filter_complex_script")
        /\ InlineGraphs = {}
        /\ Len(cmd) = Len(CmdWithOneOverlay)

\* C19: a non-zero exit of the encoder ends extract_clip, merge_clips and
\* burn_subtitles_with_ffmpeg with an error that carries the captured
\* stderr, never with a returned value, and the encoder is started once.
C19_EncoderFailureRaised ==
    (fpc = "done" /\ result.returncode # 0) =>
        /\ outcome.kind = "raised"
        /\ outcome.stderr = result.stderr
        /\ runs = 1

\* C19 witness: merge_clips ended after the encoder exited with code 1 and
\* a message on stderr.
C19_Witness ==
    /\ fpc = "done" /\ ff_call.fn = "merge_clips"
    /\ result = [returncode |-> 1, stderr |-> "Invalid data found"]
    /\ outcome.kind = "raised"

(***************************************************************************)
(* generate_danmaku_ass called with an emoji map and an emoji directory.   *)
(***************************************************************************)
MaxEmojiComments == 2

TokenA == <<":", "a", ":">>
TokenB == <<":", "b", ":">>

\* ":a:", "x:b:y", ":a::b:", ":a:x:a:", ": a:" (no shortcut: whitespace
\* inside), "::a" (no shortcut) and a comment without text
EmojiComments ==
    { Comment(TokenA, 0),
      Comment(<<"x">> \o TokenB \o <<"y">>, 0),
      Comment(TokenA \o TokenB, 1000),
      Comment(TokenA \o <<"x">> \o TokenA, 1000),
      Comment(<<":", " ", "a", ":">>, 0),
      Comment(<<":", ":", "a">>, 1000),
      Comment(<<>>, 0) }

\* no map; a map of :a: only; a map of :a: and :b:
EmojiMaps ==
    { <<>>,
      [t \in {TokenA} |-> "a.png"],
      [t \in {TokenA, TokenB} |-> IF t = TokenA THEN "a.png" ELSE "b.png"] }

\* no directory; a directory without files, with a.png, with both files
EmojiDirs ==
    {NoEmojiDir} \cup {[path |-> "/emoji", files |-> fs] : fs \in SUBSET {"a.png", "b.png"}}

InitDmEmoji ==
    /\ cfg \in SmallConfigs
    /\ comments \in SeqsUpTo(EmojiComments, MaxEmojiComments)
    /\ emoji_map \in EmojiMaps
    /\ emoji_dir \in EmojiDirs
    /\ emoji_overlays = <<>>
    /\ sorted_comments = SortByTimestamp(comments)
    /\ lane_available_times = [l \in 1..NumLanes(cfg) |-> 0]
    /\ chosen_lane = -1 /\ base_speed = 0
    /\ dm_lines = <<>>
    /\ dpc = "sched"
    /\ events = <<>>
    /\ IdleParse /\ IdleAss /\ IdleCodec /\ IdleFf /\ IdleApi

SpecDmEmoji == InitDmEmoji /\ [][NextDm]_vars

(***************************************************************************)
(* Stacking the stacked lines again (SpecAss).                             *)
(***************************************************************************)
\* the merged events of alignment a, in emission order
LinesOfAlignment(a) == LET Of(m) == m.alignment = a IN SelectSeq(merged_events, Of)

\* the lines as input cues: each line a cue with its interval's start and
\* end and the line as its text
RefedCues(ms) ==
    [i \in DOMAIN ms |->
        [start_sec |-> ms[i].start, end_sec |-> ms[i].end, text |-> ms[i].line_text]]

\* the assignments that give n cues one style: none (all cues take the
\* default style), or one saved style for every cue
UniformMaps(n) ==
    {[i \in {} |-> DefaultName]}
    \cup {[i \in 0..(n - 1) |-> saved_styles[k].name] : k \in DOMAIN saved_styles}

\* lines 207-331 run on the re-fed cues
Restacked(ms, smap) == MergeEvents(ExpandAll(RefedCues(ms), styles, saved_styles, smap))

IsSuffix(u, v) == Len(u) <= Len(v) /\ SubSeq(v, Len(v) - Len(u) + 1, Len(v)) = u

\* r has the intervals of g, line for line, each line of r is the line of g
\* (behind the text prefix of its new style, if that has one), and two
\* lines of one interval are one above the other in r as they are in g
SameStack(g, r) ==
    /\ Len(r) = Len(g)
    /\ \A i \in DOMAIN g :
          /\ r[i].start = g[i].start /\ r[i].end = g[i].end
          /\ IsSuffix(g[i].line_text, r[i].line_text)
    /\ \A i, j \in DOMAIN g :
          (g[i].start = g[j].start) =>
              ((ScreenY(g[i]) < ScreenY(g[j])) <=> (ScreenY(r[i]) < ScreenY(r[j])))

\* C22: stacking is idempotent: the stacked lines of one alignment group,
\* fed back as input cues in emission order (each line a cue with its
\* interval's start and end, all cues in one style), are flattened into the
\* same intervals and stacked in the same top-to-bottom order.
C22_StackingIdempotent ==
    Flattened =>
        \A a \in Alignments :
            LET g == LinesOfAlignment(a) IN
            \A smap \in UniformMaps(Len(g)) : SameStack(g, Restacked(g, smap))

\* C22 witness: two overlapping cues of one alignment gave three intervals,
\* the middle one with two stacked lines, and the lines re-fed under a
\* top-aligned saved style with a text prefix come out as the same stack.
C22_Witness ==
    /\ apc = "merged" /\ OneAlignmentClass
    /\ Cardinality({merged_events[i].start : i \in DOMAIN merged_events}) = 3
    /\ \E i \in DOMAIN merged_events : Len(GroupOf(merged_events[i].start,
                                   merged_events[i].end, merged_events[i].alignment)) = 2
    /\ \E k \in DOMAIN saved_styles :
          /\ Get(saved_styles[k].obj, "prefix", "") # ""
          /\ AlignmentCode(saved_styles[k].obj) \in {7, 8, 9}
          /\ LET g == LinesOfAlignment(merged_events[1].alignment)
                 r == Restacked(g, [i \in 0..(Len(g) - 1) |-> saved_styles[k].name])
             IN /\ merged_events[1].alignment \in {1, 2, 3}
                /\ SameStack(g, r)
                /\ r[1].line_text # g[1].line_text

(***************************************************************************)
(* Claims about the scroll speed (SpecDm).                                 *)
(***************************************************************************)
\* C21: the speed drawn for a comment lies within the band the call was
\* given, [speed_min, speed_max]; the row's duration is the travel distance
\* divided by that speed and its end is its start plus that duration.
\* Violated: line 491 draws from [600, 700] whatever the band is.
C21_SpeedWithinBand ==
    (dpc # "idle" /\ dm_lines # <<>>) =>
        LET row == dm_lines[Len(dm_lines)] IN
        /\ cfg.speed_min <= base_speed /\ base_speed <= cfg.speed_max
        /\ row.end_time - row.start_time = Duration(cfg, row.text, base_speed)

(***************************************************************************)
(* Claims about emoji shortcuts (SpecDmEmoji).                             *)
(***************************************************************************)
HasText(c) == c.text # <<>>

\* the comments that get a row, in the order of the rows
RowComments == SelectSeq(SortByTimestamp(comments), HasText)

\* the shortcut tokens of a text are the parts the split returns at even
\* positions
IsTokenAt(parts, p) == p % 2 = 0

\* a token that has an image: emoji processing is on, the token is in the
\* map and the mapped file exists
Resolved(token) ==
    /\ DOMAIN emoji_map # {} /\ emoji_dir.path # ""
    /\ token \in DOMAIN emoji_map
    /\ emoji_map[token] \in emoji_dir.files

\* the text with placeholder spacing for exactly the resolved tokens
TextWithPlaceholders(text) ==
    LET parts == EmojiSplit(text)
    IN Concat([p \in DOMAIN parts |->
                  IF IsTokenAt(parts, p) /\ Resolved(parts[p]) THEN Placeholder
                  ELSE parts[p]])

\* one descriptor per resolved token of row r, with the row's start and end
DescriptorsOfRow(r) ==
    LET parts == EmojiSplit(RowComments[r].text)
    IN Concat([p \in DOMAIN parts |->
                  IF IsTokenAt(parts, p) /\ Resolved(parts[p])
                  THEN <<[image |-> emoji_map[parts[p]],
                          start |-> dm_lines[r].start_time,
                          end |-> dm_lines[r].end_time]>>
                  ELSE <<>>])

EmittedDescriptors ==
    [o \in DOMAIN emoji_overlays |->
        [image |-> emoji_overlays[o].path[2],
         start |-> emoji_overlays[o].start,
         end |-> emoji_overlays[o].end]]

\* C20: a shortcut token that is not in the emoji map, or whose image file
\* does not exist, stays in the emitted text verbatim and yields no overlay
\* descriptor; a token is replaced by placeholder spacing if and only if
\* exactly one descriptor is emitted for it, with the comment's start and
\* end.
C20_EmojiTokens ==
    dpc = "done" =>
        /\ Len(dm_lines) = Len(RowComments)
        /\ \A r \in DOMAIN dm_lines :
              dm_lines[r].text = TextWithPlaceholders(RowComments[r].text)
        /\ EmittedDescriptors = Concat([r \in DOMAIN dm_lines |-> DescriptorsOfRow(r)])

\* C20 witness: the comment ":a::b:" was emitted with a map of both tokens
\* and a directory that holds a.png only: placeholder spacing and one
\* descriptor for :a:, and :b: left in the text.
C20_Witness ==
    /\ dpc = "done"
    /\ comments = <<Comment(TokenA \o TokenB, 1000)>>
    /\ TokenB \in DOMAIN emoji_map
    /\ emoji_dir.files = {"a.png"}
    /\ dm_lines[1].text = Placeholder \o TokenB
    /\ Len(emoji_overlays) = 1
    /\ emoji_overlays[1].path = <<"/emoji", "a.png">>
    /\ emoji_overlays[1].start = 1000

(***************************************************************************)
(* The /burn endpoint: burn_subtitles of main.py, lines 309-412.           *)
(***************************************************************************)
MaxBurnComments == 2

\* line 136: the parameters of burn_subtitles_with_ffmpeg, in order
BurnParams ==
    <<"video_path", "ass_path", "output_path", "vtt_path", "saved_styles", "style_map",
      "default_style", "upload_dir">>

\* lines 395-406: the call passes three positional arguments ...
BurnPositional == 3

\* ... and these keyword arguments
BurnKeywords ==
    {"vtt_path", "saved_styles", "style_map", "default_style", "upload_dir",
     "danmaku_ass_path", "emoji_overlays"}

\* a call binds if every positional argument has a parameter and every
\* keyword names a parameter that no positional argument has taken;
\* otherwise the call raises TypeError before the function's first line
Binds(params, positional, keywords) ==
    /\ positional <= Len(params)
    /\ \A k \in keywords : \E i \in (positional + 1)..Len(params) : params[i] = k

\* lines 353-355: the density filter, on timestamps in ms
DensityFilter(cs, density) ==
    LET Kept(c) == (c.timestamp % 100) < density
    IN IF density < 100 THEN SelectSeq(cs, Kept) ELSE cs

RECURSIVE ShortcutsOf(_)
\* the parts of one comment that are emoji shortcuts
ShortcutsOf(parts) ==
    IF parts = <<>> THEN <<>>
    ELSE (IF MatchEnd(Head(parts), 1) > 0 THEN <<Head(parts)>> ELSE <<>>)
         \o ShortcutsOf(Tail(parts))

\* what generate_danmaku_ass returns as its second value for a channel
\* whose map and directory hold every shortcut (has_map), and for a video
\* without map: one descriptor per shortcut, by comment
DescriptorsFor(cs, has_map) ==
    IF has_map
    THEN Concat([i \in DOMAIN cs |-> ShortcutsOf(EmojiSplit(cs[i].text))])
    ELSE <<>>

\* lines 311-314: a missing video raises HTTPException(404) inside the try
CheckVideo ==
    /\ bpc = "start"
    /\ IF request.video_exists
       THEN bpc' = "found" /\ error' = error
       ELSE bpc' = "failed" /\ error' = "404: Video not found"
    /\ UNCHANGED <<request, comments_data, danmaku_file, main_overlays, response>>

\* lines 316-344: the styles are cleaned, the cue file is saved and
\* generate_ass writes the markup, or raises on a malformed time range
GenerateAss ==
    /\ bpc = "found"
    /\ IF request.vtt_ok
       THEN bpc' = "ass" /\ error' = error
       ELSE bpc' = "failed" /\ error' = "ValueError"
    /\ UNCHANGED <<request, comments_data, danmaku_file, main_overlays, response>>

\* lines 346-390: scroll-comment markup, if requested and comments exist
GenerateDanmaku ==
    /\ bpc = "ass"
    /\ IF request.with_danmaku /\ request.comments # <<>>
       THEN LET filtered == DensityFilter(request.comments, request.danmaku_density) IN
            /\ comments_data' = filtered
            /\ danmaku_file' = "danmaku.ass"
            /\ main_overlays' = [bound |-> TRUE,
                                 list |-> DescriptorsFor(filtered, request.has_map)]
       ELSE /\ comments_data' = (IF request.with_danmaku THEN request.comments ELSE <<>>)
            /\ UNCHANGED <<danmaku_file, main_overlays>>
    /\ bpc' = "danmaku"
    /\ UNCHANGED <<request, error, response>>

\* lines 392-408: burn_subtitles_with_ffmpeg is called and the file name
\* returned; a call that binds runs lines 140-284
CallBurn ==
    /\ bpc = "danmaku"
    /\ IF Binds(BurnParams, BurnPositional, BurnKeywords)
       THEN \E rc \in {0, 1} :
              /\ cmd' = BurnCmd(Call("burn_subtitles_with_ffmpeg", "none", "none", FALSE,
                                     request.prefix_images, <<>>))
              /\ result' = [returncode |-> rc, stderr |-> ""]
              /\ runs' = runs + 1
              /\ IF rc = 0
                 THEN /\ response' = [status |-> 200, body |-> "filename"]
                      /\ bpc' = "done" /\ error' = error
                 ELSE /\ response' = response
                      /\ bpc' = "failed" /\ error' = "CalledProcessError"
       ELSE /\ error' = "TypeError"
            /\ bpc' = "failed"
            /\ UNCHANGED <<cmd, result, runs, response>>
    /\ UNCHANGED <<request, comments_data, danmaku_file, main_overlays>>

\* lines 409-413: every exception becomes HTTPException(500, str(e))
HandleError ==
    /\ bpc = "failed"
    /\ response' = [status |-> 500, body |-> error]
    /\ bpc' = "done"
    /\ UNCHANGED <<request, comments_data, danmaku_file, main_overlays, error>>

\* comments "a" at 0 s, ":a:" at 1.05 s and ":a:x:a:" at 2 s
BurnComments ==
    {Comment(<<"a">>, 0), Comment(TokenA, 1050), Comment(TokenA \o <<"x">> \o TokenA, 2000)}

BurnRequests ==
    [video_exists : BOOLEAN, vtt_ok : BOOLEAN, with_danmaku : BOOLEAN,
     danmaku_density : {10, 100},
     comments : SeqsUpTo(BurnComments, MaxBurnComments),
     has_map : BOOLEAN,
     prefix_images : {<<>>, <<"a.png">>}]

InitBurn ==
    /\ request \in BurnRequests
    /\ comments_data = <<>> /\ danmaku_file = ""
    /\ main_overlays = [bound |-> FALSE, list |-> <<>>]
    /\ error = "" /\ response = <<>> /\ bpc = "start"
    /\ events = <<>>
    /\ IdleParse /\ IdleAss /\ IdleDm /\ IdleCodec /\ IdleFf /\ IdleFcp /\ IdlePrefix
    /\ IdleJob /\ IdleModel

NextBurn ==
    \/ CheckVideo /\ UNCHANGED <<events, parseVars, assVars, dmVars, codecVars, ffVars, fcpVars, prefixVars, jobVars, modelVars>>
    \/ GenerateAss /\ UNCHANGED <<events, parseVars, assVars, dmVars, codecVars, ffVars, fcpVars, prefixVars, jobVars, modelVars>>
    \/ GenerateDanmaku /\ UNCHANGED <<events, parseVars, assVars, dmVars, codecVars, ffVars, fcpVars, prefixVars, jobVars, modelVars>>
    \/ CallBurn /\ UNCHANGED <<events, parseVars, assVars, dmVars, codecVars,
                               ff_call, filter_script, list_file, outcome, fpc, fcpVars, prefixVars, jobVars, modelVars>>
    \/ HandleError /\ UNCHANGED <<events, parseVars, assVars, dmVars, codecVars, ffVars, fcpVars, prefixVars, jobVars, modelVars>>

SpecBurn == InitBurn /\ [][NextBurn]_vars

(***************************************************************************)
(* Claims about the /burn endpoint (SpecBurn).                             *)
(***************************************************************************)
SubtitleNodes == {a \in DOMAIN Graph : Graph[a].op = "subtitles"}
OverlayNodes == {a \in DOMAIN Graph : Graph[a].op = "overlay"}

\* C23: a burn request that asks for scrolling comments, for a video with
\* comments, completes unless the encoder fails, and its graph holds the
\* subtitle burn of the scroll-comment markup after the main subtitle burn
\* and one overlay per emoji descriptor.  Violated: the call of lines
\* 395-406 names two parameters burn_subtitles_with_ffmpeg does not have.
C23_DanmakuBurned ==
    (/\ bpc = "done" /\ request.video_exists /\ request.vtt_ok
     /\ request.with_danmaku /\ request.comments # <<>>
     /\ ~(runs > 0 /\ result.returncode # 0)) =>
        /\ response.status = 200
        /\ Cardinality(SubtitleNodes) = 2
        /\ Cardinality(OverlayNodes) >= Len(main_overlays.list)

(***************************************************************************)
(* generate_fcpxml of fcpxml_generator.py.  A segment is start, end (ms)   *)
(* and text.                                                               *)
(***************************************************************************)
MaxSegments == 3

Segment(start, end, text) == [start |-> start, end |-> end, text |-> text]

\* lines 19-45: int(seconds * (time_base / time_scale)) frames for a whole
\* number of frames per second (time_scale = 1), written "<frames>/<fps>s"
seconds_to_rational(ms, rate) == <<TruncDiv(ms * rate, 1000), rate>>

RECURSIVE InsertByStart(_, _)
\* the place of seg in a list sorted by start: after every segment that
\* does not start later (list.sort is stable)
InsertByStart(sorted, seg) ==
    IF sorted = <<>> THEN <<seg>>
    ELSE IF Head(sorted).start <= seg.start
         THEN <<Head(sorted)>> \o InsertByStart(Tail(sorted), seg)
         ELSE <<seg>> \o sorted

RECURSIVE SortedByStart(_)
\* the list after subtitles.sort(key=lambda x: x['start'])
SortedByStart(subs) ==
    IF subs = <<>> THEN <<>>
    ELSE InsertByStart(SortedByStart(SubSeq(subs, 1, Len(subs) - 1)), subs[Len(subs)])

\* lines 97-141: the title element of segment i (0-based)
Title(sub, i, rate) ==
    [offset |-> seconds_to_rational(sub.start, rate),
     duration |-> seconds_to_rational(sub.end - sub.start, rate),
     text |-> sub.text,
     style_ref |-> i + 1]

\* lines 17-94: the document's head is built and the list is sorted in
\* place
SortSubtitles ==
    /\ xpc = "call"
    /\ subtitles' = SortedByStart(subtitles)
    /\ next_sub' = 0
    /\ xpc' = "titles"
    /\ UNCHANGED <<fps, titles>>

\* lines 97-141: one round of the loop over the segments
AddTitle ==
    /\ xpc = "titles" /\ next_sub < Len(subtitles)
    /\ titles' = Append(titles, Title(subtitles[next_sub + 1], next_sub, fps))
    /\ next_sub' = next_sub + 1
    /\ UNCHANGED <<subtitles, fps, xpc>>

\* lines 143-163: the document is written and output_path returned
WriteFcpxml ==
    /\ xpc = "titles" /\ next_sub = Len(subtitles)
    /\ xpc' = "written"
    /\ UNCHANGED <<subtitles, fps, titles, next_sub>>

\* segments as parse_vtt_file returns them for cue files whose cues are in
\* any order
SegmentSet ==
    {Segment(0, 2000, "Hello"), Segment(1000, 3000, "World"), Segment(5000, 6000, "Again")}

InitFcp ==
    /\ subtitles \in SeqsUpTo(SegmentSet, MaxSegments)
    /\ fps \in {25, 30}
    /\ titles = <<>> /\ next_sub = 0 /\ xpc = "call"
    /\ events = <<>>
    /\ IdleParse /\ IdleAss /\ IdleDm /\ IdleCodec /\ IdleFf /\ IdleBurn /\ IdlePrefix
    /\ IdleJob /\ IdleModel

NextFcp ==
    \/ SortSubtitles /\ UNCHANGED <<events, parseVars, assVars, dmVars, codecVars, ffVars,
          burnVars, prefixVars, jobVars, modelVars>>
    \/ AddTitle /\ UNCHANGED <<events, parseVars, assVars, dmVars, codecVars, ffVars,
          burnVars, prefixVars, jobVars, modelVars>>
    \/ WriteFcpxml /\ UNCHANGED <<events, parseVars, assVars, dmVars, codecVars, ffVars,
          burnVars, prefixVars, jobVars, modelVars>>

SpecFcp == InitFcp /\ [][NextFcp]_vars

(***************************************************************************)
(* Claims about the inputs of the generators.                              *)
(***************************************************************************)
\* C24: producing markup or export artifacts never mutates its inputs: no
\* step of generate_ass, generate_danmaku_ass or generate_fcpxml changes the
\* caller's cue or segment list (content and order), comment list, style
\* objects or style assignment.  Violated: generate_fcpxml sorts the
\* caller's list in place (line 94).
C24_InputsNotMutated ==
    [][/\ subtitles' = subtitles
       /\ events' = events
       /\ comments' = comments
       /\ styles' = styles /\ saved_styles' = saved_styles
       /\ style_map' = style_map]_vars

(***************************************************************************)
(* Claims about the names of the style table (SpecAss).                    *)
(***************************************************************************)
RowsNamed(name) == {j \in DOMAIN StyleTable : StyleTable[j].name = name}

\* C25: for any saved-style names the style table defines the Default
\* style once and no two style rows share a name after sanitization, so
\* that every event's style reference identifies exactly one style row.
\* Violated: "A B" and "A_B" are both written as A_B, and "Default," as
\* Default.
C25_StyleNamesUnique ==
    apc = "written" =>
        /\ Cardinality(RowsNamed(DefaultName \o <<"_Box">>)) = 1
        /\ \A i, j \in DOMAIN StyleTable :
              i # j => StyleTable[i].name # StyleTable[j].name
        /\ \A d \in DOMAIN ass_lines :
              IsDialogue(ass_lines[d]) => Cardinality(RowsNamed(ass_lines[d].style)) = 1

(***************************************************************************)
(* extract_prefix_images_from_vtt of video_processing.py, lines 47-107.    *)
(* parse_vtt_time of video_processing.py (lines 36-44) computes what       *)
(* parse_vtt_time of ass_generator.py computes.                            *)
(***************************************************************************)
MaxVttLines == 4

\* style_obj.get('prefixImage') is given and not empty
HasPrefixImage(style_obj) ==
    "prefixImage" \in DOMAIN style_obj /\ style_obj["prefixImage"] # ""

\* lines 52-53: nothing to look for
NoImageStyles == saved_styles = <<>> /\ ~(styles # <<>> /\ HasPrefixImage(styles))

\* lines 74-83: the style object of cue i, <<>> for None
PrefixStyleObj(i) ==
    IF /\ i \in DOMAIN style_map /\ style_map[i] # <<>>
       /\ saved_styles # <<>> /\ HasStyle(saved_styles, style_map[i])
    THEN StyleOf(saved_styles, style_map[i])
    ELSE styles

\* lines 85-101: the descriptor of a cue whose style has a prefix image
ImageOverlay(style_obj, start, end) ==
    [image_url |-> style_obj["prefixImage"],
     start |-> start, end |-> end,
     size |-> Get(style_obj, "prefixImageSize", 32),
     bottom_percent |-> Get(style_obj, "bottom", 10),
     alignment |-> Get(style_obj, "alignment", "center")]

\* lines 52-61: the early return, or the file is read
PrefixOpen ==
    /\ ppc = "call"
    /\ ppc' = IF NoImageStyles THEN "done" ELSE "read"
    /\ lines' = IF NoImageStyles THEN <<>> ELSE vtt
    /\ UNCHANGED <<in_cue, text_lines, current_start, current_end, prefixVars>>

\* lines 66-70: a line holding "-->"
PrefixTimeLine ==
    /\ ppc = "read" /\ lines # <<>>
    /\ HasArrow(Head(lines))
    /\ LET times == SplitArrow(Head(lines))
           s == parse_vtt_time(times[1])
           e == IF Len(times) > 1 THEN parse_vtt_time(times[2]) ELSE [ok |-> FALSE, v |-> 0]
       IN IF ~s.ok \/ ~e.ok
          THEN /\ ppc' = "error"
               /\ UNCHANGED <<in_cue, current_start, current_end>>
          ELSE /\ current_start' = s.v
               /\ current_end' = e.v
               /\ in_cue' = TRUE
               /\ ppc' = "read"
    /\ lines' = Tail(lines)
    /\ UNCHANGED <<text_lines, prefixVars>>

\* lines 71-105: a blank line inside a cue closes the cue
PrefixBlankLine ==
    /\ ppc = "read" /\ lines # <<>>
    /\ ~HasArrow(Head(lines)) /\ IsBlank(Head(lines)) /\ in_cue
    /\ LET style_obj == PrefixStyleObj(cue_index) IN
       image_overlays' =
          IF style_obj # <<>> /\ HasPrefixImage(style_obj)
          THEN Append(image_overlays, ImageOverlay(style_obj, current_start, current_end))
          ELSE image_overlays
    /\ in_cue' = FALSE
    /\ cue_index' = cue_index + 1
    /\ lines' = Tail(lines)
    /\ UNCHANGED <<text_lines, current_start, current_end, ppc, vtt>>

\* lines 64-71: a line no branch takes (text, or a blank line outside a cue)
PrefixOtherLine ==
    /\ ppc = "read" /\ lines # <<>>
    /\ ~HasArrow(Head(lines))
    /\ ~(IsBlank(Head(lines)) /\ in_cue)
    /\ lines' = Tail(lines)
    /\ UNCHANGED <<in_cue, text_lines, current_start, current_end, ppc, prefixVars>>

\* line 107: the loop is over, image_overlays is returned
PrefixEnd ==
    /\ ppc = "read" /\ lines = <<>>
    /\ ppc' = "done"
    /\ UNCHANGED <<lines, in_cue, text_lines, current_start, current_end, prefixVars>>

\* ---- generate_ass's parser (lines 162-196) as a function of the file
ParserStart ==
    [in_cue |-> FALSE, text_lines |-> <<>>, current_start |-> 0, current_end |-> 0,
     events |-> <<>>, ok |-> TRUE]

\* lines 168-188: the parser's variables after one line
ParserStep(st, l) ==
    IF HasArrow(l)
    THEN LET times == SplitArrow(l)
             s == parse_vtt_time(times[1])
             e == IF Len(times) > 1 THEN parse_vtt_time(times[2])
                  ELSE [ok |-> FALSE, v |-> 0]
         IN IF ~s.ok \/ ~e.ok THEN [st EXCEPT !.ok = FALSE]
            ELSE [st EXCEPT !.current_start = s.v, !.current_end = e.v,
                            !.in_cue = TRUE, !.text_lines = <<>>]
    ELSE IF ~IsBlank(l) /\ st.in_cue /\ ~HasWebvtt(l)
    THEN (IF IsDigit(l) /\ st.text_lines = <<>> THEN st
          ELSE [st EXCEPT !.text_lines = Append(st.text_lines, l.t)])
    ELSE IF IsBlank(l) /\ st.in_cue
    THEN [st EXCEPT !.in_cue = FALSE,
                    !.events = IF st.text_lines # <<>>
                               THEN Append(st.events, Cue(st.current_start, st.current_end,
                                                          st.text_lines))
                               ELSE st.events]
    ELSE st

RECURSIVE ParserRun(_, _)
ParserRun(st, ls) ==
    IF ls = <<>> \/ ~st.ok THEN st ELSE ParserRun(ParserStep(st, Head(ls)), Tail(ls))

\* lines 162-196: the cues generate_ass numbers 0, 1, ... for the file
AssCues(file) ==
    LET st == ParserRun(ParserStart, file)
    IN IF st.in_cue /\ st.text_lines # <<>>
       THEN Append(st.events, Cue(st.current_start, st.current_end, st.text_lines))
       ELSE st.events

\* ---- inputs: two time-range lines, a text line and the blank line; the
\* default style without or with a prefix image; one saved style with a
\* prefix image, assigned to any of the first two indices
VttLineSet ==
    { TimeLine(<<0, 0, 0>>, <<0, 0, 1000>>), TimeLine(<<0, 0, 2000>>, <<0, 0, 3000>>),
      TextLine("Hello"), BlankLine }

StyleDefaultImage == [prefixImage |-> "/static/d.png", prefixImageSize |-> 48]

InitPrefix ==
    /\ vtt \in SeqsUpTo(VttLineSet, MaxVttLines)
    /\ styles \in {StylePlain, StyleDefaultImage}
    /\ saved_styles \in {<<>>, <<Entry(NameTop, StyleImage)>>}
    /\ \E S \in SUBSET {0, 1} : style_map = [i \in S |-> NameTop]
    /\ lines = <<>> /\ in_cue = FALSE /\ text_lines = <<>>
    /\ current_start = 0 /\ current_end = 0 /\ ppc = "call"
    /\ cue_index = 0 /\ image_overlays = <<>>
    /\ events = <<>>
    /\ expanded_events = <<>> /\ merged_events = <<>> /\ ass_lines = <<>> /\ apc = "idle"
    /\ IdleDm /\ IdleCodec /\ IdleFf /\ IdleBurn /\ IdleFcp /\ IdleJob /\ IdleModel

NextPrefix ==
    \/ PrefixOpen /\ UNCHANGED <<events, assVars, dmVars, codecVars, ffVars, burnVars, fcpVars,
                      jobVars, modelVars>>
    \/ PrefixTimeLine
         /\ UNCHANGED <<events, assVars, dmVars, codecVars, ffVars, burnVars, fcpVars,
                      jobVars, modelVars>>
    \/ PrefixBlankLine
         /\ UNCHANGED <<events, assVars, dmVars, codecVars, ffVars, burnVars, fcpVars,
                      jobVars, modelVars>>
    \/ PrefixOtherLine
         /\ UNCHANGED <<events, assVars, dmVars, codecVars, ffVars, burnVars, fcpVars,
                      jobVars, modelVars>>
    \/ PrefixEnd /\ UNCHANGED <<events, assVars, dmVars, codecVars, ffVars, burnVars, fcpVars,
                      jobVars, modelVars>>

SpecPrefix == InitPrefix /\ [][NextPrefix]_vars

(***************************************************************************)
(* Claims about the numbering of the cues (SpecPrefix).                    *)
(***************************************************************************)
\* the descriptors the cues of generate_ass would get, cue i under the
\* style extract_prefix_images_from_vtt resolves for index i
RECURSIVE ImagesOfCues(_, _)
ImagesOfCues(cues, i) ==
    IF cues = <<>> THEN <<>>
    ELSE (IF HasPrefixImage(PrefixStyleObj(i))
          THEN <<ImageOverlay(PrefixStyleObj(i), Head(cues).start_sec, Head(cues).end_sec)>>
          ELSE <<>>)
         \o ImagesOfCues(Tail(cues), i + 1)

\* C26: generate_ass and extract_prefix_images_from_vtt number the cues of
\* every cue file identically: the prefix images returned are those of the
\* cues of generate_ass, cue i under the style of index i, also for cues
\* without text, cues not separated by a blank line and a last cue without
\* a blank line after it.
C26_SameCueNumbering ==
    (ppc = "done" /\ ~NoImageStyles) => image_overlays = ImagesOfCues(AssCues(vtt), 0)

(***************************************************************************)
(* Claims about the style of stacked lines (SpecAss).                      *)
(***************************************************************************)
\* style reference and has-outer-outline flag of the cue each line of the
\* window came from, in the order of the lines
ExpectedStyles(start, end, a) ==
    LET On(e) == e.alignment = a /\ e.start <= start /\ end <= e.end
        cues == SelectSeq(expanded_events, On)
    IN Concat([c \in DOMAIN cues |->
                  [k \in DOMAIN SplitBreaks(DispText(cues[c]), <<>>) |->
                      <<cues[c].style_name, cues[c].has_outer>>]])

LineStyles(group) == [k \in DOMAIN group |-> <<group[k].style_name, group[k].has_outer>>]

\* C27: every stacked line is rendered with the style reference and the
\* has-outer-outline flag of the cue it came from, also when cues of
\* different styles and one alignment are active in one interval.
\* Violated: lines 323-331 give every line of a group the style of the
\* group's first cue.
C27_LineKeepsCueStyle ==
    Flattened =>
        \A i \in DOMAIN merged_events :
            LET m == merged_events[i]
            IN LineStyles(GroupOf(m.start, m.end, m.alignment))
                   = ExpectedStyles(m.start, m.end, m.alignment)

(***************************************************************************)
(* Claims about the fields of a markup time (SpecTime).                    *)
(***************************************************************************)
\* C28: for every time >= 0 seconds_to_ass_time returns H:MM:SS.cc with the
\* minutes field in 00..59 and the seconds field in 00.00..59.99.
\* Violated: a time in the last 5 ms of a minute is written with the seconds
\* field 60.00 and the minute it belongs to.
C28_FieldsInRange ==
    cpc = "formatted" =>
        /\ ass_time[1] >= 0
        /\ ass_time[2] \in 0..59
        /\ ass_time[3] \in 0..5999

(***************************************************************************)
(* The /youtube/download endpoint: download_youtube of main.py, lines      *)
(* 448-589, with progress.py.  The endpoint is a plain def, which the      *)
(* server runs on a thread pool: requests for one video id interleave at   *)
(* every statement.  Time is in minutes.                                   *)
(***************************************************************************)
MaxClock == 4

\* lines 465 and 489: 120 s
StaleAfter == 2

Requests == {"r1", "r2"}
VideoId == "vid"

\* progress.py, lines 18-27: get_progress(video_id)
get_progress(store) ==
    IF VideoId \in DOMAIN store THEN store[VideoId]
    ELSE [status |-> "idle", progress |-> 0, updated_at |-> 0]

\* progress.py, lines 8-16: progress_store after update_progress(video_id, ...)
update_progress(status, progress) ==
    [v \in {VideoId} |-> [status |-> status, progress |-> progress, updated_at |-> now]]

Goto(r, label) == jpc' = [jpc EXCEPT ![r] = label]

\* lines 458-465: is a job for the id running?
CheckRunning(r) ==
    /\ jpc[r] = "arrive"
    /\ LET current_progress == get_progress(progress_store) IN
       IF /\ current_progress.status \in {"downloading", "transcribing"}
          /\ now - current_progress.updated_at < StaleAfter
       THEN Goto(r, "wait")
       ELSE Goto(r, "begin")
    /\ UNCHANGED <<progress_store, now, model_size, video_file, vtt_file>>

\* lines 469-491: one round of the wait loop that leaves the loop
PollLeaves(r) ==
    /\ jpc[r] = "wait"
    /\ LET prog == get_progress(progress_store) IN
       /\ \/ prog.status \in {"completed", "error"}
          \/ now - prog.updated_at > StaleAfter
       /\ IF prog.status = "completed" THEN Goto(r, "begin")
          ELSE IF prog.status = "error" THEN Goto(r, "raise")
          ELSE Goto(r, "begin")
    /\ UNCHANGED <<progress_store, now, model_size, video_file, vtt_file>>

\* line 493
Begin(r) ==
    /\ jpc[r] = "begin"
    /\ progress_store' = update_progress("downloading", 0)
    /\ Goto(r, "download")
    /\ UNCHANGED <<now, model_size, video_file, vtt_file>>

\* lines 497-505: the video is downloaded, or found in the upload directory
Download(r) ==
    /\ jpc[r] = "download"
    /\ \/ /\ video_file' = TRUE
          /\ progress_store' = update_progress("downloading", 100)
          /\ Goto(r, "downloaded")
       \/ /\ ~video_file
          /\ UNCHANGED <<video_file, progress_store>>
          /\ Goto(r, "raise")
    /\ UNCHANGED <<now, model_size, vtt_file>>

\* lines 522-541: no transcription asked for, transcription needed, or the
\* transcript is there
AfterDownload(r) ==
    /\ jpc[r] = "downloaded"
    /\ IF model_size[r] = "none"
       THEN progress_store' = update_progress("completed", 100) /\ Goto(r, "finish")
       ELSE IF ~vtt_file
       THEN progress_store' = update_progress("transcribing", 0) /\ Goto(r, "transcribe")
       ELSE progress_store' = update_progress("completed", 100) /\ Goto(r, "finish")
    /\ UNCHANGED <<now, model_size, video_file, vtt_file>>

\* lines 532-538: transcribe_video, reporting its progress, ends or raises
Transcribe(r) ==
    /\ jpc[r] = "transcribe"
    /\ \/ /\ vtt_file' = TRUE
          /\ progress_store' = update_progress("transcribing", 100)
          /\ Goto(r, "finish")
       \/ /\ UNCHANGED <<vtt_file>>
          /\ progress_store' = update_progress("transcribing", 50)
          /\ Goto(r, "raise")
    /\ UNCHANGED <<now, model_size, video_file>>

\* lines 543-581
Complete(r) ==
    /\ jpc[r] = "finish"
    /\ progress_store' = update_progress("completed", 100)
    /\ Goto(r, "done")
    /\ UNCHANGED <<now, model_size, video_file, vtt_file>>

\* lines 582-589
Fail(r) ==
    /\ jpc[r] = "raise"
    /\ progress_store' = update_progress("error", 0)
    /\ Goto(r, "failed")
    /\ UNCHANGED <<now, model_size, video_file, vtt_file>>

\* a minute passes
Tick ==
    /\ jpc # <<>> /\ now < MaxClock
    /\ now' = now + 1
    /\ UNCHANGED <<progress_store, jpc, model_size, video_file, vtt_file>>

\* nothing on disk and no progress entry, or a video that was processed
\* before: its files on disk and its status completed, or no entry any more
InitJob ==
    /\ \/ /\ video_file = FALSE /\ vtt_file = FALSE /\ progress_store = <<>>
       \/ /\ video_file = TRUE /\ vtt_file = TRUE
          /\ progress_store \in
                {<<>>, [v \in {VideoId} |->
                           [status |-> "completed", progress |-> 100, updated_at |-> 0]]}
    /\ now = 0
    /\ jpc = [r \in Requests |-> "arrive"]
    /\ model_size \in [Requests -> {"base", "none"}]
    /\ events = <<>>
    /\ IdleParse /\ IdleAss /\ IdleDm /\ IdleCodec /\ IdleFf
    /\ IdleBurn /\ IdleFcp /\ IdlePrefix /\ IdleModel

JobOthers == <<events, parseVars, assVars, dmVars, codecVars, ffVars, burnVars, fcpVars,
               prefixVars, modelVars>>

NextJob ==
    \/ \E r \in Requests : CheckRunning(r) /\ UNCHANGED JobOthers
    \/ \E r \in Requests : PollLeaves(r) /\ UNCHANGED JobOthers
    \/ \E r \in Requests : Begin(r) /\ UNCHANGED JobOthers
    \/ \E r \in Requests : Download(r) /\ UNCHANGED JobOthers
    \/ \E r \in Requests : AfterDownload(r) /\ UNCHANGED JobOthers
    \/ \E r \in Requests : Transcribe(r) /\ UNCHANGED JobOthers
    \/ \E r \in Requests : Complete(r) /\ UNCHANGED JobOthers
    \/ \E r \in Requests : Fail(r) /\ UNCHANGED JobOthers
    \/ Tick /\ UNCHANGED JobOthers

SpecJob == InitJob /\ [][NextJob]_vars

(***************************************************************************)
(* Claims about concurrent download requests (SpecJob).                    *)
(***************************************************************************)
\* the request is between line 493 and its return or its error handler
Working(r) == jpc[r] \in {"download", "downloaded", "transcribe", "finish"}

Status == get_progress(progress_store).status

\* no request starts (line 493) while another request is at work on the id
\* and the id's status is downloading or transcribing, updated within 120 s
NoStartOverRunningJob ==
    \A r \in Requests :
        (jpc[r] = "begin" /\ jpc'[r] = "download") =>
            ~(/\ \E q \in Requests \ {r} : Working(q)
              /\ Status \in {"downloading", "transcribing"}
              /\ now - get_progress(progress_store).updated_at < StaleAfter)

\* completed is not replaced by downloading when video and transcript are
\* on disk, that is, when the request has nothing to download or transcribe
NoOverwriteWithoutWork ==
    (Status = "completed" /\ get_progress(progress_store').status = "downloading")
        => ~(video_file /\ vtt_file)

\* C29: for one video id at most one download/transcription job runs at a
\* time under any interleaving of requests: no request starts its own
\* download while a job that is downloading or transcribing (updated within
\* 120 s) is at work, and completed is never overwritten by downloading
\* while no new work is performed.  Violated: the test of lines 459-465 and
\* the update of line 493 are not one step, and line 493 runs for a
\* finished video as well.
C29_OneJobPerVideo ==
    [][NoStartOverRunningJob /\ NoOverwriteWithoutWork]_vars

(***************************************************************************)
(* The model cache: get_model of transcribe.py, lines 8-41.  The state of  *)
(* a call is the pair of globals and the number of models constructed; a   *)
(* call gives the state it leaves and what it returns or raises.           *)
(***************************************************************************)
MaxCalls == 4

Sizes == {"base", "small", "medium", "huge"}

NameError == [kind |-> "NameError", size |-> "", id |-> 0]
LoadError == [kind |-> "LoadError", size |-> "", id |-> 0]

Globals(m, recorded, n) == [current_model |-> m, current_model_size |-> recorded, loads |-> n]

\* lines 24-26: del current_model removes the global name
Unloaded(g) ==
    IF g.current_model # None THEN [g EXCEPT !.current_model = Unbound] ELSE g

\* lines 12-41: get_model(size) run from the globals g, where can_load is
\* the set of sizes WhisperModel loads
RECURSIVE get_model(_, _, _)
get_model(g, size, can_load) ==
    IF g.current_model = Unbound
    THEN [globals |-> g, returned |-> NameError]
    ELSE IF g.current_model # None /\ g.current_model_size = size
    THEN [globals |-> g, returned |-> g.current_model]
    ELSE LET u == Unloaded(g) IN
         IF size \in can_load
         THEN LET m == Model(size, u.loads + 1) IN
              [globals |-> Globals(m, size, u.loads + 1), returned |-> m]
         ELSE IF size # "base"
         THEN get_model(u, "base", can_load)
         ELSE [globals |-> u, returned |-> LoadError]

\* transcribe.py, line 87: a transcription asks for a model
GetModel ==
    /\ ncalls < MaxCalls
    /\ \E size \in Sizes :
        LET g == Globals(current_model, current_model_size, loads)
            r == get_model(g, size, loadable)
        IN /\ current_model' = r.globals.current_model
           /\ current_model_size' = r.globals.current_model_size
           /\ loads' = r.globals.loads
           /\ last_call' = [size |-> size, held |-> current_model,
                            recorded |-> current_model_size, returned |-> r.returned]
    /\ ncalls' = ncalls + 1
    /\ UNCHANGED loadable

\* a restarted process: nothing loaded (lines 9-10); sizes that are not
\* model names never load, the others may fail to load
InitModel ==
    /\ current_model = None /\ current_model_size = "" /\ loads = 0
    /\ loadable \in SUBSET {"base", "small", "medium"}
    /\ last_call = <<>> /\ ncalls = 0
    /\ events = <<>>
    /\ IdleParse /\ IdleAss /\ IdleDm /\ IdleCodec /\ IdleFf
    /\ IdleBurn /\ IdleFcp /\ IdlePrefix /\ IdleJob

NextModel ==
    GetModel /\ UNCHANGED <<events, parseVars, assVars, dmVars, codecVars, ffVars, burnVars,
                            fcpVars, prefixVars, jobVars>>

SpecModel == InitModel /\ [][NextModel]_vars

(***************************************************************************)
(* Claims about the model cache (SpecModel).                               *)
(***************************************************************************)
\* the last call asked for a size that fails to load and is not base,
\* while base loads
FellBack ==
    /\ last_call # <<>>
    /\ last_call.size \notin loadable /\ last_call.size # "base"
    /\ "base" \in loadable

\* the last call asked for the size of the model held
AskedForLoaded ==
    /\ last_call # <<>>
    /\ last_call.held.kind = "model" /\ last_call.recorded = last_call.size

\* C30: after any sequence of get_model calls, a call whose size fails to
\* load and is not 'base' returns the base model, whether or not a model
\* was loaded before; a call for the size that is loaded returns the model
\* held, without a reload; and while a model is held the recorded size is
\* that model's size.  Violated in its first part when a model was loaded
\* before: the fallback call raises NameError.
C30_GetModelContract ==
    /\ FellBack =>
          last_call.returned.kind = "model" /\ last_call.returned.size = "base"
    /\ AskedForLoaded =>
          last_call.returned = last_call.held /\ current_model = last_call.held
    /\ current_model.kind = "model" => current_model_size = current_model.size
====
